---------------------------- MODULE Spec2Model ----------------------------
(***************************************************************************)
(* Model of the multi-strategy extraction and crawl engine of the Amazon   *)
(* order-history exporter:                                                 *)
(*   - the Strategy Runner (firstMatchingStrategy, and the racing loop of  *)
(*     the item extractor),                                                *)
(*   - the three crawls (order-list pagination, gift-card pagination,      *)
(*     transactions infinite scroll) with their mergers,                   *)
(*   - the per-order enrichment loop of fetchOrders.                       *)
(* Each part has its own specification; the variables of the other parts   *)
(* stay at their initial values.                                           *)
(***************************************************************************)
EXTENDS Integers, Sequences, FiniteSets, TLC

VARIABLES
    \* ---- Strategy Runner
    runnerKind,     \* which runner: "firstMatchingStrategy" | "extractItems"
    strategies,     \* the ordered probes: how each behaves when invoked
    defaultValue,   \* the caller-supplied default
    pcR,            \* "start" | "await" | "done"
    idx,            \* index of the probe being awaited
    result,         \* the value returned (meaningful when pcR = "done")
    invoked,        \* history: indices of the probes invoked, in order
    inflight,       \* probes invoked and not yet settled
    \* ---- Crawls (one browser page, one sequential crawl)
    mode,           \* "orders" | "giftcard" | "scroll" ("none": no crawl)
    authenticated,  \* the browser session is signed in
    stopRequested,  \* the client has cancelled the request
    callsAtStop,    \* history: extraction calls made when it did so
    pcC,            \* "idle" | "loop" | "done" | "rejected"
    curPage,        \* the page (or scroll position) the browser shows
    extractCalls,   \* history: the page shown at each extraction call
    stopReason,     \* history: why the loop was left
    lastExtracted,  \* history: what the latest extraction call returned
    everExtracted,  \* history: every record an extraction call returned
    \* order-list pagination of fetchOrders
    pages,          \* the listing: the header ids each page shows
    maxOrders,      \* options.maxOrders (0: not given)
    pageNum,
    orders,         \* result.orders
    errors,         \* result.errors
    totalFound,     \* result.totalFound
    \* gift-card pagination
    numPages,       \* pages of the gift-card activity table
    maxPages,       \* options.maxPages
    fetchAllPages,  \* options.fetchAllPages
    pageCount,
    \* transactions infinite scroll
    maxScrolls,     \* options.maxScrolls
    startDate,      \* options.startDate (0: not given)
    endDate,        \* options.endDate (0: not given)
    previousCount,
    scrollCount,
    stableCount,
    sizes,          \* history: accumulator size after each iteration
    \* gift-card and scroll
    allTransactions,\* the accumulator
    returned,       \* the list the crawl returns
    \* ---- Orchestrator: the per-order loop of fetchOrders (it works on
    \* orders, errors and totalFound above)
    pcB,            \* "idle" | "loop" | "done"
    plan,           \* per header: "ok" | "throws" | "cancelled"
    useInvoice,     \* options.useInvoice
    includeItems,   \* options.includeItems
    includeShipments,     \* options.includeShipments
    includeTransactions,  \* options.includeTransactions
    orderIndex,     \* the loop index i, counted from 1
    processedCount,
    resultItems,    \* result.items: the id of the order of each item
    attempted,      \* history: headers whose try block was entered
    \* ---- Orchestrator: the enrichment of one order seen field by field
    pcE,            \* "idle" | "invoice" | "detail" | "done" | "caught"
    order,          \* the order's header fields (0: empty)
    listOrder,      \* history: the fields as the list page left them
    \* ---- Parsers: one call of a pure function
    pcF,            \* "idle" | "call" | "returned"
    fnInput,        \* the arguments of the call
    fnOutput,       \* what it returned
    \* ---- Orchestrator: the extractions issued together on one detail page
    pcG,            \* "idle" | "issue" | "running" | "joined"
    groupOptions,   \* includeItems, includeShipments, includeTransactions,
                    \* fetchTrackingNumbers
    memberStatus,   \* per issued extraction: "pending" | "reading" |
                    \* "visiting" | "settled"
    pageAt,         \* the document the shared page shows
    linksLeft,      \* tracking links extractShipments has yet to visit
    docsRead,       \* history: the documents each extraction read
    navigatedWith   \* history: per navigation, the other extractions
                    \* unsettled at that moment

runnerVars == <<runnerKind, strategies, defaultValue, pcR, idx, result,
                invoked, inflight>>

crawlCommon == <<mode, authenticated, stopRequested, callsAtStop, pcC,
                 curPage, extractCalls, stopReason,
                 lastExtracted, everExtracted, allTransactions, returned>>
ordersVars == <<pages, maxOrders, pageNum, orders, errors, totalFound>>
giftVars == <<numPages, maxPages, fetchAllPages, pageCount>>
scrollVars == <<maxScrolls, startDate, endDate, previousCount, scrollCount,
                stableCount, sizes>>
crawlVars == <<crawlCommon, ordersVars, giftVars, scrollVars>>

batchVars == <<pcB, plan, useInvoice, includeItems, includeShipments,
               includeTransactions, orderIndex, processedCount, resultItems,
               attempted>>

enrichVars == <<pcE, order, listOrder>>

fnVars == <<pcF, fnInput, fnOutput>>

groupVars == <<pcG, groupOptions, memberStatus, pageAt, linksLeft, docsRead,
               navigatedWith>>

vars == <<runnerVars, crawlVars, batchVars, enrichVars, fnVars, groupVars>>

\* ------------------------------------------------------------------------
\* Bounds of the model
\* ------------------------------------------------------------------------
MaxProbes == 3
\* pages of the order listing
MaxOrderPages == 3
\* size of a long listing page
BigPageSize == 500
\* largest options.maxOrders tried
MaxCap == 3
\* pages of the gift-card activity table
MaxGiftPages == 11
\* records a gift-card or scroll crawl extracts in total
MaxExtracted == 3
\* headers handed to the per-order loop
MaxHeaders == 5

\* ------------------------------------------------------------------------
\* General helpers
\* ------------------------------------------------------------------------
Range(s) == {s[i] : i \in 1..Len(s)}

SeqsUpTo(S, n) == UNION {[1..k -> S] : k \in 0..n}

Min(a, b) == IF a <= b THEN a ELSE b

\* ------------------------------------------------------------------------
\* Strategy Runner
\* ------------------------------------------------------------------------

\* JavaScript values a probe can produce.  Strings are sequences of
\* characters so that trim() is computed, not assumed.
NullV == [t |-> "null", v |-> <<>>]
UndefinedV == [t |-> "undefined", v |-> <<>>]
StrV(s) == [t |-> "string", v |-> s]
ArrV(a) == [t |-> "array", v |-> a]
NumV(n) == [t |-> "number", v |-> <<n>>]

IsWhitespace(c) == c = " "

RECURSIVE TrimLeft(_)
TrimLeft(s) ==
    IF s # <<>> /\ IsWhitespace(Head(s)) THEN TrimLeft(Tail(s)) ELSE s

RECURSIVE TrimRight(_)
TrimRight(s) ==
    IF s # <<>> /\ IsWhitespace(s[Len(s)])
    THEN TrimRight(SubSeq(s, 1, Len(s) - 1))
    ELSE s

\* String.prototype.trim
Trim(s) == TrimRight(TrimLeft(s))

\* The per-strategy budget of the item extractor's race, in milliseconds.
StrategyTimeoutMs == 1000

\* How long a probe takes to settle, in milliseconds.
ProbeDurations == {10, 5000}

\* What a probe does when invoked: throw, return a value after ms
\* milliseconds, or never settle.
ThrowB == [out |-> "throw", val |-> NullV, ms |-> 10]
NeverB == [out |-> "never", val |-> NullV, ms |-> 10]
ReturnB(val, ms) == [out |-> "return", val |-> val, ms |-> ms]

\* Values probed through firstMatchingStrategy<T>.
GenericValues ==
    {NullV, UndefinedV, StrV(<<>>), StrV(<<" ">>), StrV(<<"a">>),
     ArrV(<<>>), ArrV(<<1>>), NumV(0)}

\* Values of the item strategies: Item[] | null.
ItemValues == {NullV, ArrV(<<>>), ArrV(<<1>>)}

GenericBehaviours ==
    {ThrowB, NeverB, ReturnB(ArrV(<<2>>), 5000)}
        \cup {ReturnB(val, 10) : val \in GenericValues}

ItemBehaviours ==
    {ThrowB, NeverB} \cup {ReturnB(val, ms) : val \in ItemValues, ms \in ProbeDurations}

\* A plausible slip: testing the result by JavaScript truthiness.
AcceptsTruthy(res) ==
    /\ res.t # "null"
    /\ res.t # "undefined"
    /\ ~(res.t = "string" /\ res.v = <<>>)
    /\ ~(res.t = "number" /\ res.v = <<0>>)

\* A plausible slip: the item extractor's test used for every result.
AcceptsArraysOnly(res) == res.t = "array" /\ Len(res.v) > 0

\* firstMatchingStrategy's test of a settled result (csv.ts 223-233):
\* TRUE when the result is returned, FALSE when the loop continues.
Accepts(res) ==
    /\ res.t # "null"
    /\ res.t # "undefined"
    /\ ~(res.t = "string" /\ Trim(res.v) = <<>>)
    /\ ~(res.t = "array" /\ Len(res.v) = 0)

\* extractItems' test (invoice.ts 1709): result && result.length > 0.
ItemsAccepts(res) ==
    /\ res.t # "null"
    /\ res.t # "undefined"
    /\ res.t = "array"
    /\ Len(res.v) > 0

RunnerAccepts(kind, res) ==
    IF kind = "firstMatchingStrategy" THEN Accepts(res) ELSE ItemsAccepts(res)

\* Whether the race of invoice.ts 1705-1708 is lost by the strategy.
TimesOut(b) == b.out = "never" \/ (b.out = "return" /\ b.ms > StrategyTimeoutMs)

\* The for-loop reaching index i after every earlier probe was unsuccessful
\* (fl: the probes still unsettled): invoke probe i, or fall out of the loop
\* and return the default.
RunnerAdvance(i, fl) ==
    IF i <= Len(strategies)
    THEN /\ idx' = i
         /\ invoked' = Append(invoked, i)
         /\ inflight' = fl \cup {i}
         /\ pcR' = "await"
         /\ UNCHANGED result
    ELSE /\ idx' = i
         /\ pcR' = "done"
         /\ result' = defaultValue
         /\ inflight' = fl
         /\ UNCHANGED invoked

\* No per-order loop is running.
BatchParked ==
    /\ pcB = "idle" /\ plan = <<>> /\ useInvoice = FALSE
    /\ includeItems = FALSE /\ includeShipments = FALSE
    /\ includeTransactions = FALSE /\ orderIndex = 0 /\ processedCount = 0
    /\ resultItems = <<>> /\ attempted = <<>>

\* No parser is being called.
FnParked == pcF = "idle" /\ fnInput = <<>> /\ fnOutput = <<>>

\* No group of extractions is running.
GroupParked ==
    /\ pcG = "idle" /\ groupOptions = <<>> /\ memberStatus = <<>>
    /\ pageAt = "none" /\ linksLeft = 0 /\ docsRead = <<>>
    /\ navigatedWith = {}

\* No single order is being enriched.
EnrichParked == pcE = "idle" /\ order = <<>> /\ listOrder = <<>>

\* No crawl is running (the result object aside).
CrawlQuiet ==
    /\ mode = "none" /\ authenticated = TRUE
    /\ stopRequested = FALSE /\ callsAtStop = 0
    /\ pcC = "idle" /\ curPage = 0
    /\ extractCalls = <<>> /\ stopReason = "" /\ allTransactions = <<>>
    /\ lastExtracted = <<>> /\ everExtracted = {}
    /\ returned = <<>>
    /\ pages = <<>> /\ maxOrders = 0 /\ pageNum = 0
    /\ numPages = 0 /\ maxPages = 0 /\ fetchAllPages = FALSE /\ pageCount = 0
    /\ maxScrolls = 0 /\ startDate = 0 /\ endDate = 0 /\ previousCount = 0
    /\ scrollCount = 0 /\ stableCount = 0 /\ sizes = <<>>

\* No crawl is running.
CrawlParked ==
    /\ mode = "none" /\ authenticated = TRUE
    /\ stopRequested = FALSE /\ callsAtStop = 0
    /\ pcC = "idle" /\ curPage = 0
    /\ extractCalls = <<>> /\ stopReason = "" /\ allTransactions = <<>>
    /\ lastExtracted = <<>> /\ everExtracted = {}
    /\ returned = <<>>
    /\ pages = <<>> /\ maxOrders = 0 /\ pageNum = 0 /\ orders = <<>>
    /\ errors = <<>> /\ totalFound = 0
    /\ numPages = 0 /\ maxPages = 0 /\ fetchAllPages = FALSE /\ pageCount = 0
    /\ maxScrolls = 0 /\ startDate = 0 /\ endDate = 0 /\ previousCount = 0
    /\ scrollCount = 0 /\ stableCount = 0 /\ sizes = <<>>

\* No runner is running.
RunnerParked ==
    /\ runnerKind = "none" /\ strategies = <<>> /\ defaultValue = NullV
    /\ pcR = "done" /\ idx = 0 /\ result = UndefinedV /\ invoked = <<>>
    /\ inflight = {}

RunnerInit ==
    /\ CrawlParked
    /\ BatchParked
    /\ EnrichParked
    /\ FnParked
    /\ GroupParked
    /\ runnerKind \in {"firstMatchingStrategy", "extractItems"}
    /\ strategies \in
         IF runnerKind = "firstMatchingStrategy"
         THEN SeqsUpTo(GenericBehaviours, MaxProbes)
         ELSE SeqsUpTo(ItemBehaviours, MaxProbes)
    /\ defaultValue \in
         IF runnerKind = "firstMatchingStrategy"
         THEN {ArrV(<<>>), StrV(<<"d">>)}
         ELSE {ArrV(<<>>)}
    /\ pcR = "start"
    /\ idx = 0
    /\ result = UndefinedV
    /\ invoked = <<>>
    /\ inflight = {}

\* Entering the loop: the first strategy is invoked (or there is none).
RunnerStart ==
    /\ pcR = "start"
    /\ RunnerAdvance(1, {})
    /\ UNCHANGED <<runnerKind, strategies, defaultValue>>
    /\ UNCHANGED <<crawlVars, batchVars, enrichVars, fnVars, groupVars>>

\* The awaited probe settles (in the race: before the timer).
ProbeSettles ==
    /\ pcR = "await"
    /\ strategies[idx].out # "never"
    /\ runnerKind = "extractItems" => ~TimesOut(strategies[idx])
    /\ IF strategies[idx].out = "return"
            /\ RunnerAccepts(runnerKind, strategies[idx].val)
       THEN /\ result' = strategies[idx].val
            /\ pcR' = "done"
            /\ inflight' = inflight \ {idx}
            /\ UNCHANGED <<idx, invoked>>
       ELSE \* it threw, or its result is empty: next strategy
            RunnerAdvance(idx + 1, inflight \ {idx})
    /\ UNCHANGED <<runnerKind, strategies, defaultValue>>
    /\ UNCHANGED <<crawlVars, batchVars, enrichVars, fnVars, groupVars>>

\* The 1 s timer of the item extractor's race fires first: the race resolves
\* null, the loop goes on, and the strategy keeps running unawaited.
ProbeTimesOut ==
    /\ pcR = "await"
    /\ runnerKind = "extractItems"
    /\ TimesOut(strategies[idx])
    /\ RunnerAdvance(idx + 1, inflight)
    /\ UNCHANGED <<runnerKind, strategies, defaultValue>>
    /\ UNCHANGED <<crawlVars, batchVars, enrichVars, fnVars, groupVars>>

\* A strategy that lost its race settles later; nobody reads its result.
LateSettle ==
    /\ \E i \in inflight :
         /\ ~(pcR = "await" /\ i = idx)
         /\ strategies[i].out # "never"
         /\ inflight' = inflight \ {i}
    /\ UNCHANGED <<runnerKind, strategies, defaultValue, pcR, idx, result,
                   invoked>>
    /\ UNCHANGED <<crawlVars, batchVars, enrichVars, fnVars, groupVars>>

RunnerNext == RunnerStart \/ ProbeSettles \/ ProbeTimesOut \/ LateSettle

SpecRunner == RunnerInit /\ [][RunnerNext]_vars

\* ------------------------------------------------------------------------
\* Claims about the Strategy Runner
\* ------------------------------------------------------------------------

\* The least index whose probe satisfies P, or 0 when there is none.
FirstIndex(P(_)) ==
    IF \E i \in 1..Len(strategies) : P(strategies[i])
    THEN CHOOSE i \in 1..Len(strategies) :
           /\ P(strategies[i])
           /\ \A j \in 1..(i - 1) : ~P(strategies[j])
    ELSE 0

\* What the runner has to return when "successful" means P.
ExpectedResult(P(_)) ==
    IF FirstIndex(P) = 0 THEN defaultValue ELSE strategies[FirstIndex(P)].val

\* Successful as C1 words it: no throw, and a result that is not
\* null/undefined, not the empty string, not an empty collection.
SuccessfulAsClaimed(b) ==
    /\ b.out = "return"
    /\ b.val.t \notin {"null", "undefined"}
    /\ ~(b.val.t = "string" /\ b.val.v = <<>>)
    /\ ~(b.val.t = "array" /\ b.val.v = <<>>)

\* Successful with whitespace-only strings counted as empty.
SuccessfulNonBlank(b) ==
    /\ SuccessfulAsClaimed(b)
    /\ ~(b.val.t = "string" /\ \A i \in 1..Len(b.val.v) : b.val.v[i] = " ")

RunnerReturned == pcR = "done" /\ runnerKind = "firstMatchingStrategy"

\* C1 (as claimed): when firstMatchingStrategy returns, it returns the
\* result of the first probe in list order that did not throw and whose
\* result is not null, undefined, the empty string or an empty collection,
\* and the caller's default when there is no such probe.
C1_FirstSuccessfulAsClaimed ==
    RunnerReturned => result = ExpectedResult(SuccessfulAsClaimed)

\* C1 (amended): the same, with a whitespace-only string also counting as an
\* unsuccessful result.
C1_FirstSuccessfulNonBlank ==
    RunnerReturned => result = ExpectedResult(SuccessfulNonBlank)

\* C1 witness: probe 1 throws, probe 2 returns an empty list, probe 3 returns
\* one record; the runner has attempted all three and returned the record.
C1_Witness ==
    /\ RunnerReturned
    /\ Len(strategies) = 3
    /\ strategies[1].out = "throw"
    /\ strategies[2] = ReturnB(ArrV(<<>>), 10)
    /\ strategies[3] = ReturnB(ArrV(<<1>>), 10)
    /\ invoked = <<1, 2, 3>>
    /\ result = ArrV(<<1>>)

\* C2 (as claimed): every probe has a bounded budget, so while the runner
\* awaits a probe, the probe either settles or its timeout fires: a probe
\* that never settles cannot keep the runner from returning.
C2_NoProbeStallsRunner ==
    pcR = "await" => ENABLED (ProbeSettles \/ ProbeTimesOut)

\* ------------------------------------------------------------------------
\* Deduplicator / Merger
\* ------------------------------------------------------------------------

\* Insert x into the ascending sequence s (Array.prototype.sort on ids).
RECURSIVE InsertAsc(_, _)
InsertAsc(x, s) ==
    IF s = <<>> THEN <<x>>
    ELSE IF x < Head(s) THEN <<x>> \o s
    ELSE <<Head(s)>> \o InsertAsc(x, Tail(s))

RECURSIVE SortAsc(_)
SortAsc(s) == IF s = <<>> THEN <<>> ELSE InsertAsc(Head(s), SortAsc(Tail(s)))

\* Insert record r into s, which is in date-descending order, after the
\* records of the same date: sort((a, b) => b.date - a.date) is stable.
RECURSIVE InsertByDateDesc(_, _)
InsertByDateDesc(r, s) ==
    IF s = <<>> THEN <<r>>
    ELSE IF r.date > Head(s).date THEN <<r>> \o s
    ELSE <<Head(s)>> \o InsertByDateDesc(r, Tail(s))

\* A sort that forgets to reverse: ascending dates.
RECURSIVE InsertByDateAsc(_, _)
InsertByDateAsc(r, s) ==
    IF s = <<>> THEN <<r>>
    ELSE IF r.date < Head(s).date THEN <<r>> \o s
    ELSE <<Head(s)>> \o InsertByDateAsc(r, Tail(s))

RECURSIVE SortByDateAsc(_)
SortByDateAsc(s) ==
    IF s = <<>> THEN <<>>
    ELSE InsertByDateAsc(s[Len(s)], SortByDateAsc(SubSeq(s, 1, Len(s) - 1)))

\* list.sort((a, b) => b.date.getTime() - a.date.getTime())
RECURSIVE SortByDateDesc(_)
SortByDateDesc(s) ==
    IF s = <<>> THEN <<>>
    ELSE InsertByDateDesc(s[Len(s)], SortByDateDesc(SubSeq(s, 1, Len(s) - 1)))

\* The key mergeTransactions builds, read after orderIds.sort() has
\* reordered the record's own array: date, sorted order ids, amount.
TransactionKey(t) == <<t.date, SortAsc(t.orderIds), t.amount>>

\* The record as mergeTransactions leaves it: t.orderIds.sort() sorts the
\* record's array in place.
AfterKeying(t) == [t EXCEPT !.orderIds = SortAsc(@)]

\* A merger in which a later record replaces the earlier one of its key.
RECURSIVE MergeLastWins(_, _)
MergeLastWins(todo, merged) ==
    IF todo = <<>> THEN merged
    ELSE LET t == AfterKeying(Head(todo))
             hit == {i \in 1..Len(merged) :
                       TransactionKey(merged[i]) = TransactionKey(t)}
         IN MergeLastWins(Tail(todo),
                IF hit = {} THEN Append(merged, t)
                ELSE [merged EXCEPT ![CHOOSE i \in hit : TRUE] = t])

\* The loop of mergeTransactions over [...existing, ...newTransactions].
RECURSIVE MergeLoop(_, _, _)
MergeLoop(todo, seen, merged) ==
    IF todo = <<>> THEN merged
    ELSE LET t == AfterKeying(Head(todo))
             key == TransactionKey(t)
         IN IF key \notin seen
            THEN MergeLoop(Tail(todo), seen \cup {key}, Append(merged, t))
            ELSE MergeLoop(Tail(todo), seen, merged)

mergeTransactionsLastWins(existing, newTransactions) ==
    MergeLastWins(existing \o newTransactions, <<>>)

mergeTransactions(existing, newTransactions) ==
    MergeLoop(existing \o newTransactions, {}, <<>>)

\* The key deduplicateTransactions builds: date, amount, orderId || description.
GiftKey(tx) ==
    <<tx.date, tx.amount, IF tx.orderId # "" THEN tx.orderId ELSE tx.description>>

RECURSIVE DedupLoop(_, _, _)
DedupLoop(todo, seen, unique) ==
    IF todo = <<>> THEN unique
    ELSE LET tx == Head(todo)
             key == GiftKey(tx)
         IN IF key \notin seen
            THEN DedupLoop(Tail(todo), seen \cup {key}, Append(unique, tx))
            ELSE DedupLoop(Tail(todo), seen, unique)

\* deduplicateTransactions: first record of each key, then sorted by date.
deduplicateTransactions(transactions) ==
    SortByDateDesc(DedupLoop(transactions, {}, <<>>))

\* The dedup key of a record of either crawl.
KeyOf(r) == IF "orderIds" \in DOMAIN r THEN TransactionKey(r) ELSE GiftKey(r)

\* Math.min(...list.map(t => t.date))
MinDate(s) == CHOOSE d \in {s[i].date : i \in 1..Len(s)} :
                \A j \in 1..Len(s) : d <= s[j].date

\* ------------------------------------------------------------------------
\* Crawl Controller: order-list pagination (fetchOrders, csv-columns.ts)
\* ------------------------------------------------------------------------

\* The built-in ceiling of csv-columns.ts 1050: maxOrders || 1000.
DefaultOrderLimit == 1000

\* What a listing page can show: header ids (pages may overlap), or a long
\* page of BigPageSize fresh headers.
BigPage == [i \in 1..BigPageSize |-> 100 + i]
OrderPageChoices == {<<>>, <<1>>, <<1, 2>>, <<2, 3>>, BigPage}

\* hasNextPage on page p of the listing.
hasNextPage(p) == p < Len(pages)

\* A slip: >= replaced by > in the cap test.
ReachedCapStrict(n) == maxOrders # 0 /\ n > maxOrders

\* csv-columns.ts 1042: maxOrders && result.orders.length >= maxOrders
ReachedCap(n) == maxOrders # 0 /\ n >= maxOrders

\* A slip: the ceiling test dropped.
BelowLimitAlways(n) == TRUE

\* csv-columns.ts 1050: result.orders.length < (maxOrders || 1000)
BelowLimit(n) == n < (IF maxOrders # 0 THEN maxOrders ELSE DefaultOrderLimit)

\* plugin.checkAuthStatus: the page shows a sign-in form exactly when the
\* session is not signed in.
checkAuthStatus == [authenticated |-> authenticated]

\* What an extraction finds on the sign-in page Amazon serves instead of
\* the page asked for: no row, no record.
SignInPageRows == <<>>

OrdersInit ==
    /\ mode = "orders" /\ pcC = "auth" /\ curPage = 1
    /\ authenticated \in BOOLEAN
    /\ stopRequested = FALSE /\ callsAtStop = 0
    /\ extractCalls = <<>> /\ stopReason = "" /\ allTransactions = <<>>
    /\ lastExtracted = <<>> /\ everExtracted = {}
    /\ returned = <<>>
    /\ \E k \in 1..MaxOrderPages : pages \in [1..k -> OrderPageChoices]
    /\ maxOrders \in 0..MaxCap
    /\ pageNum = 1 /\ orders = <<>> /\ errors = <<>> /\ totalFound = 0
    /\ numPages = 0 /\ maxPages = 0 /\ fetchAllPages = FALSE /\ pageCount = 0
    /\ maxScrolls = 0 /\ startDate = 0 /\ endDate = 0 /\ previousCount = 0
    /\ scrollCount = 0 /\ stableCount = 0 /\ sizes = <<>>

\* csv-columns.ts 1007-1014: the order list was opened; an unauthenticated
\* session gets one "Not authenticated" error and the empty result.
OrdersCheckAuth ==
    /\ mode = "orders" /\ pcC = "auth"
    /\ IF checkAuthStatus.authenticated
       THEN /\ pcC' = "loop"
            /\ UNCHANGED <<errors, stopReason>>
       ELSE /\ errors' = Append(errors, "Not authenticated")
            /\ pcC' = "done"
            /\ stopReason' = "auth"
    /\ UNCHANGED <<mode, authenticated, stopRequested, callsAtStop, curPage,
                   extractCalls, pages, maxOrders, pageNum, orders,
                   totalFound, allTransactions, returned, lastExtracted,
                   everExtracted>>
    /\ UNCHANGED <<giftVars, scrollVars, runnerVars, batchVars,
                   enrichVars, fnVars, groupVars>>

\* Leaving the while loop: result.totalFound = result.orders.length.
OrdersLeave(why, list) ==
    /\ orders' = list
    /\ totalFound' = Len(list)
    /\ pcC' = "done"
    /\ stopReason' = why
    /\ UNCHANGED <<curPage, pageNum, errors>>

\* One iteration of the while (hasMore) loop; navigated: what goToNextPage
\* returns when it is called.
OrdersIterate ==
    /\ mode = "orders" /\ pcC = "loop"
    /\ extractCalls' = Append(extractCalls, curPage)
    /\ \E navigated \in BOOLEAN :
         LET all == orders \o pages[curPage] IN
         IF ReachedCap(Len(all))
         THEN OrdersLeave("cap", SubSeq(all, 1, maxOrders))
         ELSE IF hasNextPage(curPage) /\ BelowLimit(Len(all))
         THEN IF navigated
              THEN /\ orders' = all
                   /\ pageNum' = pageNum + 1
                   /\ curPage' = curPage + 1
                   /\ UNCHANGED <<pcC, stopReason, totalFound, errors>>
              ELSE OrdersLeave("navigation", all)
         ELSE OrdersLeave(IF hasNextPage(curPage) THEN "limit" ELSE "nonext", all)
    /\ UNCHANGED <<mode, authenticated, stopRequested, callsAtStop, pages,
                   maxOrders, allTransactions, returned, lastExtracted,
                   everExtracted>>
    /\ UNCHANGED <<giftVars, scrollVars, runnerVars, batchVars,
                   enrichVars, fnVars, groupVars>>

\* extractOrderHeaders (or a page call) throws: the outer catch of
\* fetchOrders records one error and returns the result as it stands.
OrdersThrow ==
    /\ mode = "orders" /\ pcC = "loop"
    /\ extractCalls' = Append(extractCalls, curPage)
    /\ errors' = Append(errors, "Fetch error")
    /\ pcC' = "done"
    /\ stopReason' = "error"
    /\ UNCHANGED <<mode, authenticated, stopRequested, callsAtStop, curPage,
                   pages, maxOrders, pageNum, orders, totalFound,
                   allTransactions, returned, lastExtracted, everExtracted>>
    /\ UNCHANGED <<giftVars, scrollVars, runnerVars, batchVars,
                   enrichVars, fnVars, groupVars>>

\* ------------------------------------------------------------------------
\* Crawl Controller: gift-card pagination (extractGiftCardData)
\* ------------------------------------------------------------------------

\* options.maxPages when not given (gift-card.ts 113).
GiftDefaultMaxPages == 10

GiftRecord(d, a, o, desc, c) ==
    [date |-> d, amount |-> a, orderId |-> o, description |-> desc,
     claimCode |-> c]

\* Ledger rows: dates are day numbers.  The second and third differ only
\* in their claim code.
GiftRecords ==
    {GiftRecord(2, -5, "o1", "applied", ""),
     GiftRecord(1, 8, "", "added", "c1"),
     GiftRecord(1, 8, "", "added", "c2")}

\* extractTransactionsFromTable: the rows of the page shown, sorted by date
\* descending (gift-card.ts 433).
extractTransactionsFromTable(rows) == SortByDateDesc(rows)

\* A slip: the page cap tested one page late.
GiftPageCapLate(n) == maxPages > 0 /\ n > maxPages

\* gift-card.ts 145: maxPages > 0 && pageCount >= maxPages
GiftPageCap(n) == maxPages > 0 /\ n >= maxPages

GiftInit ==
    /\ mode = "giftcard" /\ pcC = "loop" /\ curPage = 1
    /\ authenticated \in BOOLEAN
    /\ stopRequested = FALSE /\ callsAtStop = 0
    /\ extractCalls = <<>> /\ stopReason = "" /\ allTransactions = <<>>
    /\ lastExtracted = <<>> /\ everExtracted = {}
    /\ returned = <<>>
    /\ pages = <<>> /\ maxOrders = 0 /\ pageNum = 0 /\ orders = <<>>
    /\ errors = <<>> /\ totalFound = 0
    /\ numPages \in IF authenticated THEN 1..MaxGiftPages ELSE {1}
    /\ maxPages \in {0, 2, GiftDefaultMaxPages}
    /\ fetchAllPages \in BOOLEAN
    /\ pageCount = 0
    /\ maxScrolls = 0 /\ startDate = 0 /\ endDate = 0 /\ previousCount = 0
    /\ scrollCount = 0 /\ stableCount = 0 /\ sizes = <<>>

\* One iteration of the while (true) loop; clicked: whether
\* goToNextGiftCardPage manages to follow the Next link it finds.
GiftIterate ==
    /\ mode = "giftcard" /\ pcC = "loop"
    /\ pageCount' = pageCount + 1
    /\ extractCalls' = Append(extractCalls, curPage)
    /\ \E rows \in SeqsUpTo(GiftRecords, 2), clicked \in BOOLEAN :
         /\ Len(allTransactions) + Len(rows) <= MaxExtracted
         /\ ~authenticated => rows = SignInPageRows
         /\ lastExtracted' = extractTransactionsFromTable(rows)
         /\ everExtracted' = everExtracted \cup Range(rows)
         /\ allTransactions' = allTransactions \o lastExtracted'
         /\ LET why == IF ~fetchAllPages THEN "single"
                       ELSE IF GiftPageCap(pageCount') THEN "maxPages"
                       ELSE IF curPage >= numPages THEN "nonext"
                       ELSE IF ~clicked THEN "navigation"
                       ELSE ""
            IN IF why # ""
               THEN /\ returned' = deduplicateTransactions(allTransactions')
                    /\ pcC' = "done"
                    /\ stopReason' = why
                    /\ UNCHANGED curPage
               ELSE /\ curPage' = curPage + 1
                    /\ UNCHANGED <<returned, pcC, stopReason>>
    /\ UNCHANGED <<mode, authenticated, stopRequested, callsAtStop, numPages,
                   maxPages, fetchAllPages>>
    /\ UNCHANGED <<ordersVars, scrollVars, runnerVars, batchVars,
                   enrichVars, fnVars, groupVars>>

\* The table extraction throws: extractGiftCardData has no handler, its
\* promise rejects and nothing is returned.
GiftThrow ==
    /\ mode = "giftcard" /\ pcC = "loop"
    /\ pageCount' = pageCount + 1
    /\ extractCalls' = Append(extractCalls, curPage)
    /\ pcC' = "rejected"
    /\ stopReason' = "error"
    /\ UNCHANGED <<mode, authenticated, stopRequested, callsAtStop, curPage,
                   allTransactions, returned, numPages, maxPages,
                   fetchAllPages, lastExtracted, everExtracted>>
    /\ UNCHANGED <<ordersVars, scrollVars, runnerVars, batchVars,
                   enrichVars, fnVars, groupVars>>

\* ------------------------------------------------------------------------
\* Crawl Controller: transactions infinite scroll
\* (extractTransactionsFromPage)
\* ------------------------------------------------------------------------

\* options.maxScrolls when not given (transactions-page 44).
DefaultMaxScrolls == 50

\* Consecutive no-growth iterations that end the scroll (line 82).
StableLimit == 3

Transaction(d, ids, a, v) ==
    [date |-> d, orderIds |-> ids, amount |-> a, vendor |-> v]

\* Payment transactions.  The first two have the same key (their order ids
\* are the same set) and different vendors.
TxRecords ==
    {Transaction(3, <<2, 1>>, 5, "a"),
     Transaction(3, <<1, 2>>, 5, "b"),
     Transaction(1, <<>>, 7, "a")}

\* The date-range filter of lines 111-118.
InRange(t) ==
    /\ ~(startDate # 0 /\ t.date < startDate)
    /\ ~(endDate # 0 /\ t.date > endDate)

\* A slip: the final sort left out.
FinalOrderUnsorted(list) == list

\* Line 121: filteredTransactions.sort(date descending).
FinalOrder(list) == SortByDateDesc(list)

\* A slip: the stability test compares with >= 2.
StableEnoughEarly(n) == n >= 2

\* Line 82: stableCount >= 3.
StableEnough(n) == n >= StableLimit

\* A slip: the newest record compared with the start date.
PastStartNewest(all) ==
    /\ startDate # 0 /\ Len(all) > 0
    /\ \A i \in 1..Len(all) : all[i].date < startDate

\* Lines 93-99: a start date was given and the oldest merged record is
\* before it.
PastStart(all) ==
    startDate # 0 /\ Len(all) > 0 /\ MinDate(all) < startDate

\* A slip: a loop that has no iteration bound.
WithinScrollsUnbounded(n) == TRUE

\* Line 67: while (scrollCount < maxScrolls).
WithinScrolls(n) == n < maxScrolls

ScrollInit ==
    /\ mode = "scroll" /\ pcC = "loop" /\ curPage = 0
    /\ authenticated \in BOOLEAN
    /\ stopRequested = FALSE /\ callsAtStop = 0
    /\ extractCalls = <<>> /\ stopReason = "" /\ allTransactions = <<>>
    /\ lastExtracted = <<>> /\ everExtracted = {}
    /\ returned = <<>>
    /\ pages = <<>> /\ maxOrders = 0 /\ pageNum = 0 /\ orders = <<>>
    /\ errors = <<>> /\ totalFound = 0
    /\ numPages = 0 /\ maxPages = 0 /\ fetchAllPages = FALSE /\ pageCount = 0
    /\ maxScrolls \in {2, DefaultMaxScrolls}
    /\ startDate \in {0, 2}
    /\ endDate \in {0, 2}
    /\ previousCount = 0 /\ scrollCount = 0 /\ stableCount = 0
    /\ sizes = <<>>

\* After the loop: filter by date range, sort, return.
ScrollReturn(why, all) ==
    /\ returned' = FinalOrder(SelectSeq(all, InRange))
    /\ pcC' = "done"
    /\ stopReason' = why

\* One iteration of the while (scrollCount < maxScrolls) loop; visible: what
\* extractVisibleTransactions finds on the page as scrolled so far.
ScrollIterate ==
    /\ mode = "scroll" /\ pcC = "loop"
    /\ WithinScrolls(scrollCount)
    /\ extractCalls' = Append(extractCalls, curPage)
    /\ \E visible \in SeqsUpTo(TxRecords, 2) :
         /\ ~authenticated => visible = SignInPageRows
         /\ LET all == mergeTransactions(allTransactions, visible)
                stable == Len(all) = previousCount
                sc == IF stable THEN stableCount + 1 ELSE 0
            IN /\ lastExtracted' = visible
               /\ everExtracted' = everExtracted \cup Range(visible)
               /\ allTransactions' = all
               /\ sizes' = Append(sizes, Len(all))
               /\ stableCount' = sc
               /\ IF stable /\ StableEnough(sc)
                  THEN /\ ScrollReturn("stable", all)
                       /\ UNCHANGED <<previousCount, scrollCount, curPage>>
                  ELSE /\ previousCount' = Len(all)
                       /\ IF PastStart(all)
                          THEN /\ ScrollReturn("start", all)
                               /\ UNCHANGED <<scrollCount, curPage>>
                          ELSE /\ scrollCount' = scrollCount + 1
                               /\ curPage' = curPage + 1
                               /\ IF WithinScrolls(scrollCount')
                                  THEN UNCHANGED <<returned, pcC, stopReason>>
                                  ELSE ScrollReturn("max", all)
    /\ UNCHANGED <<mode, authenticated, stopRequested, callsAtStop,
                   maxScrolls, startDate, endDate>>
    /\ UNCHANGED <<ordersVars, giftVars, runnerVars, batchVars,
                   enrichVars, fnVars, groupVars>>

\* A page call of the loop throws: extractTransactionsFromPage has no
\* handler, its promise rejects and nothing is returned.
ScrollThrow ==
    /\ mode = "scroll" /\ pcC = "loop"
    /\ pcC' = "rejected"
    /\ stopReason' = "error"
    /\ UNCHANGED <<mode, authenticated, stopRequested, callsAtStop, curPage,
                   extractCalls, allTransactions, returned, lastExtracted,
                   everExtracted>>
    /\ UNCHANGED <<ordersVars, giftVars, scrollVars, runnerVars, batchVars,
                   enrichVars, fnVars, groupVars>>

\* The client cancels the running request.  The tool handler takes only
\* the request (index.ts 643) and no crawl reads the cancellation, so the
\* signal changes nothing else.
RaiseStop ==
    /\ mode # "none" /\ pcC \in {"auth", "loop"}
    /\ ~stopRequested
    /\ stopRequested' = TRUE
    /\ callsAtStop' = Len(extractCalls)
    /\ UNCHANGED <<mode, authenticated, pcC, curPage, extractCalls,
                   stopReason, lastExtracted, everExtracted,
                   allTransactions, returned>>
    /\ UNCHANGED <<ordersVars, giftVars, scrollVars, runnerVars, batchVars,
                   enrichVars, fnVars, groupVars>>

CrawlInit ==
    /\ RunnerParked
    /\ BatchParked
    /\ EnrichParked
    /\ FnParked
    /\ GroupParked
    /\ (OrdersInit \/ GiftInit \/ ScrollInit)

CrawlNext ==
    \/ OrdersCheckAuth \/ OrdersIterate \/ OrdersThrow
    \/ GiftIterate \/ GiftThrow
    \/ ScrollIterate \/ ScrollThrow
    \/ RaiseStop

SpecCrawl == CrawlInit /\ [][CrawlNext]_vars

ScrollNext == ScrollIterate \/ ScrollThrow

\* The scroll crawl when every awaited page call comes back (with a value
\* or an exception), so that a loop that can take a step does take one.
ScrollOnlyInit ==
    /\ RunnerParked /\ BatchParked /\ EnrichParked /\ FnParked
    /\ GroupParked /\ ScrollInit

SpecScrollLive ==
    ScrollOnlyInit /\ [][ScrollNext]_vars /\ WF_vars(ScrollNext)

\* ------------------------------------------------------------------------
\* Claims about the crawls
\* ------------------------------------------------------------------------

\* Records accumulated after the first j pages of the order listing.
RECURSIVE CumLen(_)
CumLen(j) == IF j = 0 THEN 0 ELSE CumLen(j - 1) + Len(pages[j])

\* All headers of the listing, in page order.
RECURSIVE Listing(_)
Listing(j) == IF j = 0 THEN <<>> ELSE Listing(j - 1) \o pages[j]

\* The pages of the source being crawled.
SourcePages == IF mode = "orders" THEN Len(pages) ELSE numPages

OneToN(n) == [i \in 1..n |-> i]

\* The crawl returned, and neither a navigation nor an extraction failed.
EndedUnfailed ==
    /\ pcC = "done"
    /\ stopReason \notin {"auth", "error", "navigation"}

\* A pagination crawl with no record cap: no maxOrders for the order crawl,
\* the default options for the gift-card crawl.
UncappedPagination ==
    \/ mode = "orders" /\ maxOrders = 0
    \/ mode = "giftcard" /\ fetchAllPages /\ maxPages = GiftDefaultMaxPages

\* C5 (as claimed): a pagination crawl over a source of exactly k pages,
\* with no record cap, performs exactly k extraction calls, one per page in
\* page order, and then stops.
C5_ExactlyOneCallPerPage ==
    (EndedUnfailed /\ UncappedPagination)
        => extractCalls = OneToN(SourcePages)

\* The page at which the uncapped order crawl stops: the last page, or the
\* first page after which DefaultOrderLimit records are accumulated.
OrderStopPage ==
    CHOOSE j \in 1..Len(pages) :
        /\ j = Len(pages) \/ CumLen(j) >= DefaultOrderLimit
        /\ \A i \in 1..(j - 1) : CumLen(i) < DefaultOrderLimit

\* The page at which the gift-card crawl stops.
GiftStopPage ==
    IF ~fetchAllPages THEN 1
    ELSE IF maxPages > 0 THEN Min(maxPages, numPages)
    ELSE numPages

\* C5 (amended): the extraction calls are made one per page in page order,
\* never more than k of them; an uncapped crawl that no failure cuts short
\* makes exactly k calls unless a built-in limit stops it first: the order
\* crawl after the first page at which 1000 records are accumulated, the
\* gift-card crawl after maxPages pages (10 unless configured, 0 for no
\* limit) or after one page when fetchAllPages is off.
C5_OneCallPerPageUpToLimit ==
    mode \in {"orders", "giftcard"} =>
        /\ extractCalls = OneToN(Len(extractCalls))
        /\ Len(extractCalls) <= SourcePages
        /\ (EndedUnfailed /\ mode = "orders" /\ maxOrders = 0)
              => Len(extractCalls) = OrderStopPage
        /\ (EndedUnfailed /\ mode = "giftcard")
              => Len(extractCalls) = GiftStopPage

\* C5 witness: a 3-page listing crawled without a cap in 3 extraction
\* calls, one per page, stopping at the no-next signal of page 3.
C5_Witness ==
    /\ EndedUnfailed
    /\ mode = "orders" /\ maxOrders = 0 /\ Len(pages) = 3
    /\ extractCalls = <<1, 2, 3>>
    /\ stopReason = "nonext"

\* C6: with a record cap smaller than the number of available records the
\* order crawl fetches no page once the accumulated count has reached the
\* cap, and returns exactly the first cap records; it never returns more
\* than cap records.
C6_CapTruncates ==
    (mode = "orders" /\ maxOrders > 0) =>
        /\ \A i \in 2..Len(extractCalls) : CumLen(i - 1) < maxOrders
        /\ pcC = "done" => Len(orders) <= maxOrders
        /\ (EndedUnfailed /\ maxOrders < CumLen(Len(pages))) =>
              /\ stopReason = "cap"
              /\ orders = SubSeq(Listing(Len(pages)), 1, maxOrders)
              /\ CumLen(Len(extractCalls)) >= maxOrders

\* C6 witness: a cap of 2 reached on the first of several pages, with more
\* headers on the later pages.
C6_Witness ==
    /\ mode = "orders" /\ pcC = "done" /\ maxOrders = 2
    /\ Len(pages) = 3 /\ CumLen(3) > 3
    /\ Len(extractCalls) = 1
    /\ Len(orders) = 2

\* Two records are the same extracted record, whatever the order in which
\* its order ids are listed.
SameRecord(a, b) ==
    IF "orderIds" \in DOMAIN a
    THEN /\ a.date = b.date /\ a.amount = b.amount /\ a.vendor = b.vendor
         /\ Range(a.orderIds) = Range(b.orderIds)
    ELSE a = b

\* out holds one record per key of in, each the first record of its key in
\* in, in the order in which the keys first appear.
FirstSeenPerKey(in, out) ==
    /\ \A i, j \in 1..Len(out) : KeyOf(out[i]) = KeyOf(out[j]) => i = j
    /\ {KeyOf(out[i]) : i \in 1..Len(out)} = {KeyOf(in[i]) : i \in 1..Len(in)}
    /\ \A i \in 1..Len(out) :
         \E k \in 1..Len(in) :
            /\ SameRecord(in[k], out[i])
            /\ KeyOf(in[k]) = KeyOf(out[i])
            /\ \A m \in 1..(k - 1) : KeyOf(in[m]) # KeyOf(out[i])

\* The keys of s in order of first appearance.
RECURSIVE KeyOrder(_, _)
KeyOrder(s, acc) ==
    IF s = <<>> THEN acc
    ELSE KeyOrder(Tail(s),
            IF KeyOf(Head(s)) \in Range(acc) THEN acc
            ELSE Append(acc, KeyOf(Head(s))))

KeysOf(s) == [i \in 1..Len(s) |-> KeyOf(s[i])]

\* An iteration of the scroll loop has just merged an extraction.
ScrollMerged ==
    mode = "scroll" /\ Len(extractCalls') = Len(extractCalls) + 1

\* The gift-card crawl has just deduplicated its accumulator.
GiftDeduplicated == mode = "giftcard" /\ pcC = "loop" /\ pcC' = "done"

\* What C7 says of one step of a crawl.
MergeStepKeepsFirstSeen ==
    /\ ScrollMerged =>
          /\ FirstSeenPerKey(allTransactions \o lastExtracted',
                             allTransactions')
          /\ KeysOf(allTransactions')
               = KeyOrder(allTransactions \o lastExtracted', <<>>)
    /\ GiftDeduplicated => FirstSeenPerKey(allTransactions', returned')

\* C7: merging the accumulator with a newly extracted set keeps at most one
\* record per dedup key, the first-seen one in accumulator-then-new order,
\* and keeps the keys in first-seen order (mergeTransactions in each scroll
\* iteration); deduplicateTransactions keeps the first record of each key of
\* the gift-card accumulator.
C7_MergeKeepsFirstSeen == [][MergeStepKeepsFirstSeen]_vars

\* C7 witness: the scroll accumulator holds a record whose key came again,
\* later, with another vendor.
C7_Witness ==
    /\ mode = "scroll"
    /\ Len(allTransactions) = 2
    /\ allTransactions[1].vendor = "b"
    /\ \E r \in Range(lastExtracted) :
         r.vendor = "a" /\ KeyOf(r) = KeyOf(allTransactions[1])

\* C8 (as claimed): every record some extraction call returned, different
\* from every other extracted record, is in the list the crawl returns (no
\* date range requested).
C8_NoExtractedRecordLost ==
    (pcC = "done" /\ mode \in {"giftcard", "scroll"}
        /\ startDate = 0 /\ endDate = 0)
    => \A r \in everExtracted :
          \E i \in 1..Len(returned) : SameRecord(r, returned[i])

DateDescending(s) == \A i \in 1..(Len(s) - 1) : s[i].date >= s[i + 1].date

IsPrefix(s, t) ==
    Len(s) <= Len(t) /\ \A i \in 1..Len(s) : s[i] = t[i]

\* What C9 says of one step of a crawl.
StepSortsOnlyReturned ==
    mode \in {"giftcard", "scroll"} =>
        /\ IsPrefix(allTransactions, allTransactions')
        /\ pcC' = "done" => DateDescending(returned')

SizeBefore(i) == IF i = 1 THEN 0 ELSE sizes[i - 1]

\* The number of iterations at the end of the history in which the
\* accumulator did not grow.
RECURSIVE TrailingStable(_)
TrailingStable(n) ==
    IF n = 0 THEN 0
    ELSE IF sizes[n] = SizeBefore(n) THEN 1 + TrailingStable(n - 1)
    ELSE 0

\* C10: the stability counter is the number of consecutive latest
\* iterations in which the merged accumulator did not grow (it restarts when
\* the accumulator grows); the loop ends for stability exactly when that
\* number reaches 3, never before.
C10_StabilityCounter ==
    mode = "scroll" =>
        /\ stableCount = TrailingStable(Len(sizes))
        /\ stableCount <= StableLimit
        /\ stopReason = "stable" <=> stableCount = StableLimit
        /\ pcC = "loop" => stableCount < StableLimit

\* C10 witness: the loop ended for stability after the counter had been
\* restarted by a growth that followed a stable iteration.
C10_Witness ==
    /\ mode = "scroll" /\ stopReason = "stable"
    /\ \E i \in 2..(Len(sizes) - 1) :
         sizes[i] = sizes[i - 1] /\ sizes[i + 1] > sizes[i]
    /\ stableCount = 3


\* ---------------------------------------------------------------------
\* The per-order loop of fetchOrders: every discovered header is visited
\* in turn; a cancelled order is skipped, any other order is enriched
\* inside a try block whose catch records one error and goes on.
\* ---------------------------------------------------------------------

\* an order of result.orders as the loop sees it
Header(k, isCancelled) ==
    [id |-> k, cancelled |-> isCancelled, itemsSet |-> FALSE, items |-> 0,
     grandTotal |-> 0]

HeaderKinds == {"ok", "throws", "cancelled"}

\* useInvoice and the three include flags
OptionChoices ==
    {<<u, it, sh, tr>> : u \in BOOLEAN,
                         it \in BOOLEAN, sh \in {FALSE}, tr \in BOOLEAN}
      \cup {<<TRUE, TRUE, TRUE, FALSE>>, <<FALSE, FALSE, TRUE, FALSE>>}

\* if (includeItems || includeShipments || includeTransactions)
DetailRequested == includeItems \/ includeShipments \/ includeTransactions

\* the entry the catch pushes
ErrorEntry(id) == <<"Error extracting order", id>>

\* result.errors after the catch: one entry for the order
CaughtNothing(errs, id) == errs

Caught(errs, id) == Append(errs, ErrorEntry(id))

\* the loop index after the catch: the for loop goes on
AfterCatchAbort(k, n) == n + 1

AfterCatch(k, n) == k + 1

\* i < result.orders.length
InLoop == pcB = "loop" /\ DetailRequested /\ orderIndex <= Len(orders)

\* items the invoice or the detail page yields for one order
ItemCounts == {0, 1}

\* invoice mode performs a page.goto of the detail page after the invoice
\* was read: the item fallback, the shipments, the transactions
InvoiceVisitsDetail(n) ==
    (includeItems /\ n = 0) \/ includeShipments \/ includeTransactions

BatchInit ==
    /\ RunnerParked
    /\ CrawlQuiet
    /\ EnrichParked
    /\ FnParked
    /\ GroupParked
    /\ plan \in SeqsUpTo(HeaderKinds, MaxHeaders)
    /\ \E o \in OptionChoices :
         /\ useInvoice = o[1] /\ includeItems = o[2]
         /\ includeShipments = o[3] /\ includeTransactions = o[4]
    /\ orders = [k \in 1..Len(plan) |-> Header(k, plan[k] = "cancelled")]
    /\ errors = <<>>
    /\ totalFound = Len(plan)
    /\ pcB = "loop"
    /\ orderIndex = 1
    /\ processedCount = 0
    /\ resultItems = <<>>
    /\ attempted = <<>>

BatchFrame ==
    UNCHANGED <<runnerVars, crawlCommon, pages, maxOrders, pageNum,
                totalFound, giftVars, scrollVars, allTransactions, returned,
                plan, useInvoice, includeItems, includeShipments,
                includeTransactions, enrichVars, fnVars, groupVars>>

\* if (orderStatus === "cancelled") { order.items = []; processedCount++;
\* continue; }
SkipCancelled ==
    /\ InLoop
    /\ orders[orderIndex].cancelled
    /\ orders' = [orders EXCEPT ![orderIndex].itemsSet = TRUE,
                                ![orderIndex].items = 0]
    /\ processedCount' = processedCount + 1
    /\ orderIndex' = orderIndex + 1
    /\ UNCHANGED <<errors, resultItems, attempted, pcB>>
    /\ BatchFrame

\* the try block runs to its end: the invoice (or the detail page) is read,
\* its values are merged into the order, its items go to result.items
EnrichOrder ==
    /\ InLoop
    /\ ~orders[orderIndex].cancelled
    /\ plan[orderIndex] = "ok"
    /\ \E n \in ItemCounts, detailsOk \in BOOLEAN :
         /\ useInvoice => detailsOk
         /\ orders' =
              [orders EXCEPT
                 ![orderIndex].grandTotal = IF detailsOk THEN 1 ELSE @,
                 ![orderIndex].itemsSet = IF includeItems THEN TRUE ELSE @,
                 ![orderIndex].items = IF includeItems THEN n ELSE @]
         /\ resultItems' =
              IF includeItems
              THEN resultItems \o [j \in 1..n |-> orders[orderIndex].id]
              ELSE resultItems
    /\ attempted' = Append(attempted, orderIndex)
    /\ processedCount' = processedCount + 1
    /\ orderIndex' = orderIndex + 1
    /\ UNCHANGED <<errors, pcB>>
    /\ BatchFrame

\* something in the try block throws: extractFromInvoice, or a page.goto of
\* the detail page; what was merged before the throw stays, the catch
\* pushes the error and counts the order as processed
EnrichThrows ==
    /\ InLoop
    /\ ~orders[orderIndex].cancelled
    /\ plan[orderIndex] = "throws"
    /\ \E n \in ItemCounts, stage \in {"invoice", "goto"} :
         /\ ~useInvoice => stage = "goto" /\ n = 0
         /\ (useInvoice /\ stage = "goto") => InvoiceVisitsDetail(n)
         /\ orders' =
              IF useInvoice /\ stage = "goto"
              THEN [orders EXCEPT
                      ![orderIndex].grandTotal = 1,
                      ![orderIndex].itemsSet =
                          IF includeItems /\ n > 0 THEN TRUE ELSE @,
                      ![orderIndex].items =
                          IF includeItems /\ n > 0 THEN n ELSE @]
              ELSE orders
         /\ resultItems' =
              IF useInvoice /\ stage = "goto" /\ includeItems
              THEN resultItems \o [j \in 1..n |-> orders[orderIndex].id]
              ELSE resultItems
    /\ attempted' = Append(attempted, orderIndex)
    /\ errors' = Caught(errors, orders[orderIndex].id)
    /\ processedCount' = processedCount + 1
    /\ orderIndex' = AfterCatch(orderIndex, Len(orders))
    /\ UNCHANGED pcB
    /\ BatchFrame

\* the loop is over, or was not asked for: return result
BatchReturn ==
    /\ pcB = "loop"
    /\ ~InLoop
    /\ pcB' = "done"
    /\ UNCHANGED <<orders, errors, resultItems, attempted, processedCount,
                   orderIndex>>
    /\ BatchFrame

BatchNext ==
    \/ SkipCancelled
    \/ EnrichOrder
    \/ EnrichThrows
    \/ BatchReturn

SpecBatch == BatchInit /\ [][BatchNext]_vars

\* ---------------------------------------------------------------------
\* Claims about the per-order loop
\* ---------------------------------------------------------------------

\* the indices k of plan, in order, with plan[k] of the given kinds
RECURSIVE IndicesOf(_, _, _)
IndicesOf(p, kinds, k) ==
    IF k > Len(p) THEN <<>>
    ELSE (IF p[k] \in kinds THEN <<k>> ELSE <<>>)
           \o IndicesOf(p, kinds, k + 1)

BatchDone == pcB = "done" /\ DetailRequested

\* C3: in batch mode with n discovered headers, a failure while enriching
\* one header never aborts the batch: enrichment is attempted for every
\* later header (every header the loop has passed that is not cancelled
\* had its try block entered, and at the end all of them, in order) and
\* the result contains all n orders.
C3_FailureNeverAbortsBatch ==
    /\ Len(orders) = Len(plan)
    /\ \A k \in 1..Len(orders) : orders[k].id = k
    /\ \A k \in 1..Len(plan) :
         (DetailRequested /\ k < orderIndex /\ plan[k] # "cancelled")
             => k \in Range(attempted)
    /\ BatchDone => attempted = IndicesOf(plan, {"ok", "throws"}, 1)

\* C3 witness: five headers, the third one's enrichment threw, the fourth
\* and the fifth were attempted after it and all five orders are returned.
C3_Witness ==
    /\ BatchDone
    /\ Len(plan) = 5 /\ plan[3] = "throws"
    /\ attempted = <<1, 2, 3, 4, 5>>
    /\ Len(orders) = 5

ScrollOver == mode = "scroll" => pcC \in {"done", "rejected"}

\* C11: the infinite-scroll crawl always terminates: however the feed
\* behaves it runs at most maxScrolls iterations (one extraction call per
\* iteration, scrollCount never above maxScrolls) and then it is over.
C11_ScrollTerminatesWithinMax ==
    /\ [](mode = "scroll" =>
            /\ Len(extractCalls) <= maxScrolls
            /\ scrollCount <= maxScrolls)
    /\ <>ScrollOver

\* C11 witness: a scroll whose every iteration revealed a new record and
\* that was stopped by the iteration bound after maxScrolls iterations.
C11_Witness ==
    /\ mode = "scroll" /\ pcC = "done" /\ stopReason = "max"
    /\ Len(extractCalls) = maxScrolls
    /\ sizes = <<1, 2>>


\* C12: in every crawl an unauthenticated session is detected before any
\* extraction begins: no record-extraction call is made, and a crawl that
\* ends reports the authentication-required outcome, checked once.
C12_AuthDetectedBeforeExtraction ==
    (mode \in {"orders", "giftcard", "scroll"} /\ ~authenticated) =>
        /\ extractCalls = <<>>
        /\ pcC = "done" => stopReason = "auth"


\* The records a crawl has accumulated are all in what it hands back.
AccumulatedReturned ==
    IF mode = "orders"
    THEN IsPrefix(Listing(Len(extractCalls) - 1), orders)
    ELSE \A i \in 1..Len(allTransactions) :
            \E j \in 1..Len(returned) :
                SameRecord(allTransactions[i], returned[j])

\* C13: when an unrecoverable failure occurs in the middle of a crawl, the
\* crawl still returns: what it returns holds the records accumulated
\* before the failure, and the order crawl's error list has exactly one
\* aggregate entry.
C13_AbortKeepsAccumulated ==
    stopReason = "error" =>
        /\ pcC = "done"
        /\ AccumulatedReturned
        /\ mode = "orders" => errors = <<"Fetch error">>


\* C14: cancellation is cooperative: once the stop signal has been raised
\* the loop starts no further iteration; the iteration that was in progress
\* when it was raised is not interrupted, so at most one extraction call is
\* completed after the signal.
C14_StopHonouredAtBoundary ==
    stopRequested => Len(extractCalls) <= callsAtStop + 1


\* ---------------------------------------------------------------------
\* The enrichment of one order, field by field (pcE ends as "done", or as
\* "caught" when the per-order catch ran): the header fields the list
\* page filled (extractOrderHeaders), then either the invoice merge or the
\* detail-page merge of fetchOrders.
\* ---------------------------------------------------------------------

\* Header fields both the list page and a later phase can supply.
Fields == {"subtotal", "shipping", "grandTotal", "recipient"}

\* What extractOrderDetails returns among them: shipping (always a Money,
\* of amount 0 when the page shows none) and recipient (always an object,
\* of empty name when the page shows none).
DetailFields == {"shipping", "recipient"}

\* if (invoiceData.x) order.x = invoiceData.x
MergeInvoiceField(current, fromInvoice) ==
    IF fromInvoice # "empty" THEN fromInvoice ELSE current

\* Object.assign(order, details)
AssignDetails(current, details) ==
    [f \in Fields |-> IF f \in DOMAIN details THEN details[f] ELSE current[f]]

EnrichInit ==
    /\ RunnerParked
    /\ CrawlParked
    /\ BatchParked
    /\ FnParked
    /\ GroupParked
    /\ pcE \in {"invoice", "detail"}
    /\ order \in [Fields -> {"empty", "list"}]
    /\ listOrder = order

EnrichFrame ==
    UNCHANGED <<runnerVars, crawlVars, batchVars, fnVars, groupVars,
                listOrder>>

\* invoice mode: extractFromInvoice returned, its values are merged
EnrichFromInvoice ==
    /\ pcE = "invoice"
    /\ \E invoiceData \in [Fields -> {"empty", "invoice"}] :
         order' = [f \in Fields |->
                      MergeInvoiceField(order[f], invoiceData[f])]
    /\ pcE' = "done"
    /\ EnrichFrame

\* invoice mode: extractFromInvoice throws, the catch leaves the order as
\* it is
EnrichInvoiceThrows ==
    /\ pcE = "invoice"
    /\ pcE' = "caught"
    /\ UNCHANGED order
    /\ EnrichFrame

\* detail mode: extractOrderDetails resolved and its object is assigned,
\* or it rejected and .catch(() => {}) leaves the order as it is
EnrichFromDetail ==
    /\ pcE = "detail"
    /\ \/ \E details \in [DetailFields -> {"blank", "detail"}] :
            order' = AssignDetails(order, details)
       \/ UNCHANGED order
    /\ pcE' = "done"
    /\ EnrichFrame

EnrichNext ==
    \/ EnrichFromInvoice
    \/ EnrichInvoiceThrows
    \/ EnrichFromDetail

SpecEnrich == EnrichInit /\ [][EnrichNext]_vars

\* C15: header field merge is "first confirmed value wins": a field that
\* holds a value from the list page is never overwritten by the invoice or
\* the detail phase; later phases fill only fields that are still empty.
C15_FirstConfirmedValueWins ==
    pcE \in {"done", "caught"} =>
        \A f \in Fields :
            listOrder[f] # "empty" => order[f] = listOrder[f]


\* ---------------------------------------------------------------------
\* parseMoney.  A string is a sequence of characters; the characters that
\* are not ASCII are written by name: "EURO", "POUND", "YEN", "RUPEE".
\* An amount is kept in thousandths.
\* ---------------------------------------------------------------------

DigitChars == <<"0", "1", "2", "3", "4", "5", "6", "7", "8", "9">>

IsDigit(c) == c \in Range(DigitChars)

DigitValue(c) == (CHOOSE k \in 1..10 : DigitChars[k] = c) - 1

StartsWith(s, p) == Len(s) >= Len(p) /\ SubSeq(s, 1, Len(p)) = p

DropFirst(s, n) == SubSeq(s, n + 1, Len(s))

\* s.replace(/^[...]+/, "") for a character class
RECURSIVE StripLeading(_, _)
StripLeading(s, class) ==
    IF s # <<>> /\ Head(s) \in class
    THEN StripLeading(Tail(s), class)
    ELSE s

\* s.replace(/[...]/g, "")
RECURSIVE RemoveAll(_, _)
RemoveAll(s, class) ==
    IF s = <<>> THEN <<>>
    ELSE (IF Head(s) \in class THEN <<>> ELSE <<Head(s)>>)
            \o RemoveAll(Tail(s), class)

\* s.lastIndexOf(c), counted from 1; 0 when c does not occur
LastIndexOf(s, c) ==
    IF c \in Range(s)
    THEN CHOOSE k \in 1..Len(s) :
            s[k] = c /\ \A j \in (k + 1)..Len(s) : s[j] # c
    ELSE 0

FirstIndexOf(s, c) ==
    IF c \in Range(s)
    THEN CHOOSE k \in 1..Len(s) : s[k] = c /\ \A j \in 1..(k - 1) : s[j] # c
    ELSE 0

\* s.replace(c, d): the first occurrence only
ReplaceFirst(s, c, d) ==
    IF c \in Range(s)
    THEN [s EXCEPT ![FirstIndexOf(s, c)] = d]
    ELSE s

\* s.split(c): the parts
RECURSIVE Split(_, _)
Split(s, c) ==
    IF c \notin Range(s) THEN <<s>>
    ELSE <<SubSeq(s, 1, FirstIndexOf(s, c) - 1)>>
            \o Split(DropFirst(s, FirstIndexOf(s, c)), c)

\* the longest prefix of s made of digits
RECURSIVE DigitRun(_)
DigitRun(s) ==
    IF s # <<>> /\ IsDigit(Head(s))
    THEN <<Head(s)>> \o DigitRun(Tail(s))
    ELSE <<>>

RECURSIVE DigitsValue(_)
DigitsValue(ds) ==
    IF ds = <<>> THEN 0
    ELSE 10 * DigitsValue(SubSeq(ds, 1, Len(ds) - 1))
            + DigitValue(ds[Len(ds)])

\* the fraction digits ds as thousandths (digits past the third are not
\* kept)
Thousandths(ds) ==
    DigitsValue(SubSeq(ds \o <<"0", "0", "0">>, 1, 3))

\* parseFloat(s) || 0, in thousandths: leading blanks, a digit run, then
\* possibly a point and a digit run; whatever follows is ignored, and a
\* text with no digit there is NaN, hence 0
ParseFloatOrZero(s) ==
    LET t == TrimLeft(s)
        whole == DigitRun(t)
        rest == DropFirst(t, Len(whole))
        frac == IF rest # <<>> /\ Head(rest) = "."
                THEN DigitRun(Tail(rest))
                ELSE <<>>
    IN  IF whole = <<>> /\ frac = <<>> THEN 0
        ELSE 1000 * DigitsValue(whole) + Thousandths(frac)

\* currencyPatterns: the leading text, what may follow it (blanks, then
\* possibly a dollar sign) and the currency
CurrencyPatterns ==
    << [lead |-> <<"$">>, blanks |-> FALSE, dollar |-> FALSE, cur |-> "USD"],
       [lead |-> <<"POUND">>, blanks |-> FALSE, dollar |-> FALSE,
        cur |-> "GBP"],
       [lead |-> <<"EURO">>, blanks |-> FALSE, dollar |-> FALSE,
        cur |-> "EUR"],
       [lead |-> <<"YEN">>, blanks |-> FALSE, dollar |-> FALSE, cur |-> "JPY"],
       [lead |-> <<"RUPEE">>, blanks |-> FALSE, dollar |-> FALSE,
        cur |-> "INR"],
       [lead |-> <<"A", "E", "D">>, blanks |-> TRUE, dollar |-> FALSE,
        cur |-> "AED"],
       [lead |-> <<"S", "A", "R">>, blanks |-> TRUE, dollar |-> FALSE,
        cur |-> "SAR"],
       [lead |-> <<"C", "A", "D">>, blanks |-> TRUE, dollar |-> TRUE,
        cur |-> "CAD"],
       [lead |-> <<"A", "U", "D">>, blanks |-> TRUE, dollar |-> TRUE,
        cur |-> "AUD"],
       [lead |-> <<"M", "X", "N">>, blanks |-> TRUE, dollar |-> TRUE,
        cur |-> "MXN"] >>

\* workingStr.replace(pattern, "")
StripPattern(s, pat) ==
    LET a == DropFirst(s, Len(pat.lead))
        b == IF pat.blanks THEN TrimLeft(a) ELSE a
    IN  IF pat.dollar /\ b # <<>> /\ Head(b) = "$" THEN Tail(b) ELSE b

\* the first pattern that matches, 0 when none does
MatchingPattern(s) ==
    IF \E k \in 1..Len(CurrencyPatterns) :
            StartsWith(s, CurrencyPatterns[k].lead)
    THEN CHOOSE k \in 1..Len(CurrencyPatterns) :
            /\ StartsWith(s, CurrencyPatterns[k].lead)
            /\ \A j \in 1..(k - 1) : ~StartsWith(s, CurrencyPatterns[j].lead)
    ELSE 0

\* A slip: only the minus sign counted as a negative marker.
StartsWithMinusOnly(cleaned) == StartsWith(cleaned, <<"-">>)

\* cleaned.startsWith("-") || cleaned.startsWith("(")
StartsWithNegative(cleaned) ==
    StartsWith(cleaned, <<"-">>) \/ StartsWith(cleaned, <<"(">>)

\* the separators of the amount text resolved: the text parseFloat gets
ResolveSeparators(amountStr) ==
    IF "," \in Range(amountStr) /\ "." \in Range(amountStr)
    THEN IF LastIndexOf(amountStr, ",") > LastIndexOf(amountStr, ".")
         THEN ReplaceFirst(RemoveAll(amountStr, {"."}), ",", ".")
         ELSE RemoveAll(amountStr, {","})
    ELSE IF "," \in Range(amountStr)
    THEN LET parts == Split(amountStr, ",")
         IN  IF Len(parts) = 2 /\ Len(parts[2]) = 2
             THEN ReplaceFirst(amountStr, ",", ".")
             ELSE RemoveAll(amountStr, {","})
    ELSE amountStr

parseMoney(formatted, defaultCurrency) ==
    LET cleaned == Trim(formatted)
        workingStr == StripLeading(cleaned, {"-", "(", " "})
        k == MatchingPattern(workingStr)
        currency == IF k = 0 THEN defaultCurrency
                    ELSE CurrencyPatterns[k].cur
        afterSymbol == IF k = 0 THEN workingStr
                       ELSE StripPattern(workingStr, CurrencyPatterns[k])
        isNegative == \/ StartsWithNegative(cleaned)
                      \/ "-" \in Range(afterSymbol)
                      \/ StartsWith(afterSymbol, <<"(">>)
        amountStr == RemoveAll(afterSymbol, {"-", "(", ")"})
        amount == ParseFloatOrZero(ResolveSeparators(amountStr))
    IN  [amount |-> IF isNegative THEN 0 - amount ELSE amount,
         currency |-> currency]


\* The texts handed to parseMoney: a sign marker, a leading symbol or code,
\* the number, and what trails it.
MoneySigns == {<<>>, <<"-">>, <<"(">>}

MoneyLeads ==
    {<<>>, <<"$">>, <<"EURO">>, <<"YEN">>, <<"A", "E", "D", " ">>,
     <<"C", "A", "D", " ", "$">>}

MoneyNumbers ==
    {<<"1", "2", ".", "3", "4">>,
     <<"1", ".", "2", "3", "4", ",", "5", "6">>,
     <<"1", ",", "2", "3", "4", ".", "5", "6">>,
     <<"1", "2", ",", "3", "4">>,
     <<"1", "2", ",", "3", "4", "5">>,
     <<"1", "2", "3", "4">>,
     <<>>}

MoneyTrails ==
    {<<>>, <<")">>, <<" ", "EURO">>, <<" ", "E", "U", "R">>, <<" ", "$">>}

MoneyText(in) == in.sign \o in.lead \o in.number \o in.trail

MoneyInit ==
    /\ RunnerParked
    /\ CrawlParked
    /\ BatchParked
    /\ EnrichParked
    /\ GroupParked
    /\ pcF = "call"
    /\ fnInput \in [sign : MoneySigns, lead : MoneyLeads,
                    number : MoneyNumbers, trail : MoneyTrails,
                    defaultCurrency : {"USD", "EUR", "GBP"}]
    /\ fnOutput = <<>>

CallParseMoney ==
    /\ pcF = "call"
    /\ fnOutput' = parseMoney(MoneyText(fnInput), fnInput.defaultCurrency)
    /\ pcF' = "returned"
    /\ UNCHANGED <<fnInput, runnerVars, crawlVars, batchVars, enrichVars,
                   groupVars>>

MoneyNext == CallParseMoney

SpecMoney == MoneyInit /\ [][MoneyNext]_vars

\* ---------------------------------------------------------------------
\* Claims about parseMoney
\* ---------------------------------------------------------------------

Abs(n) == IF n < 0 THEN 0 - n ELSE n

\* The number read with the separator at position k as its decimal point
\* and every other separator as grouping, in thousandths.
ReadWithDecimalAt(num, k) ==
    1000 * DigitsValue(RemoveAll(SubSeq(num, 1, k - 1), {".", ","}))
        + Thousandths(DigitRun(DropFirst(num, k)))

\* The number read with every separator as grouping.
ReadGrouped(num) == 1000 * DigitsValue(RemoveAll(num, {".", ","}))

\* The amount the separator rule of the specification gives a number.
RuleAmount(num) ==
    LET c == LastIndexOf(num, ",")
        d == LastIndexOf(num, ".")
    IN  IF c > 0 /\ d > 0 THEN ReadWithDecimalAt(num, IF c > d THEN c ELSE d)
        ELSE IF c > 0
        THEN IF Len(DigitRun(DropFirst(num, c))) = 2
             THEN ReadWithDecimalAt(num, c)
             ELSE ReadGrouped(num)
        ELSE IF d > 0 THEN ReadWithDecimalAt(num, d)
        ELSE ReadGrouped(num)

\* C16: the parser resolves separators by the rule: with both '.' and ','
\* the rightmost is the decimal separator and the other is grouping; with
\* ',' only it is the decimal separator when exactly two digits follow it
\* and grouping otherwise.
C16_SeparatorsResolved ==
    (pcF = "returned" /\ "number" \in DOMAIN fnInput) =>
        Abs(fnOutput.amount) = RuleAmount(fnInput.number)


\* The text "($12.34)".
ParenthesisedDollars ==
    <<"(", "$", "1", "2", ".", "3", "4", ")">>

\* C17 (as claimed): parsing "($12.34)" yields amount -12.34 and, as
\* currency, the default currency supplied by the caller, whatever it is.
C17_ParenthesisedGivesDefault ==
    (pcF = "returned" /\ "number" \in DOMAIN fnInput
        /\ MoneyText(fnInput) = ParenthesisedDollars) =>
        /\ fnOutput.amount = 0 - 12340
        /\ fnOutput.currency = fnInput.defaultCurrency

\* The currency of a leading symbol or code of the table; "" for none.
LeadCurrency(lead) ==
    IF MatchingPattern(lead) = 0 THEN ""
    ELSE CurrencyPatterns[MatchingPattern(lead)].cur

\* C17 (amended): parsing "($12.34)" yields amount -12.34 and currency
\* USD, read from the dollar sign, whatever default is supplied; more
\* generally a text in parentheses yields the negated amount, with the
\* currency of its leading symbol or code, and the supplied default only
\* when it has none.
C17_ParenthesisedGivesSymbolCurrency ==
    (pcF = "returned" /\ "number" \in DOMAIN fnInput
        /\ fnInput.sign = <<"(">> /\ fnInput.trail = <<")">>) =>
        /\ fnOutput.amount = 0 - RuleAmount(fnInput.number)
        /\ fnOutput.currency =
              IF LeadCurrency(fnInput.lead) = ""
              THEN fnInput.defaultCurrency
              ELSE LeadCurrency(fnInput.lead)
        /\ MoneyText(fnInput) = ParenthesisedDollars =>
              fnOutput = [amount |-> 0 - 12340, currency |-> "USD"]

\* C17 witness: "($12.34)" parsed with the default currency EUR gave
\* -12.34 USD.
C17_Witness ==
    /\ pcF = "returned" /\ "number" \in DOMAIN fnInput
    /\ MoneyText(fnInput) = ParenthesisedDollars
    /\ fnInput.defaultCurrency = "EUR"
    /\ fnOutput = [amount |-> 0 - 12340, currency |-> "USD"]

\* The currency a trailing symbol or code stands for.
TrailCurrency(trail) ==
    IF trail \in {<<" ", "EURO">>, <<" ", "E", "U", "R">>} THEN "EUR"
    ELSE IF trail = <<" ", "$">> THEN "USD"
    ELSE ""

\* C18: the parser detects the currency from a symbol or code of the table
\* whether it precedes or follows the number: a text whose symbol or code
\* trails the amount is given that currency, not the default.
C18_TrailingCurrencyDetected ==
    (pcF = "returned" /\ "number" \in DOMAIN fnInput
        /\ fnInput.lead = <<>> /\ fnInput.number # <<>>
        /\ TrailCurrency(fnInput.trail) # "") =>
        fnOutput.currency = TrailCurrency(fnInput.trail)


\* ---------------------------------------------------------------------
\* Date normalisation (normalizeDateString).  A string is a sequence of
\* characters; the characters that are not ASCII are written by name:
\* "a_uml", "e_acute", "u_circ", and "NEN", "GATSU", "NICHI" for the
\* Japanese year, month and day signs.
\* ---------------------------------------------------------------------

\* MONTH_NAMES.en: name and month number
MonthNamesEn ==
    << <<<<"j", "a", "n", "u", "a", "r", "y">>, 1>>,
       <<<<"f", "e", "b", "r", "u", "a", "r", "y">>, 2>>,
       <<<<"m", "a", "r", "c", "h">>, 3>>,
       <<<<"a", "p", "r", "i", "l">>, 4>>,
       <<<<"m", "a", "y">>, 5>>,
       <<<<"j", "u", "n", "e">>, 6>>,
       <<<<"j", "u", "l", "y">>, 7>>,
       <<<<"a", "u", "g", "u", "s", "t">>, 8>>,
       <<<<"s", "e", "p", "t", "e", "m", "b", "e", "r">>, 9>>,
       <<<<"o", "c", "t", "o", "b", "e", "r">>, 10>>,
       <<<<"n", "o", "v", "e", "m", "b", "e", "r">>, 11>>,
       <<<<"d", "e", "c", "e", "m", "b", "e", "r">>, 12>>,
       <<<<"j", "a", "n">>, 1>>,
       <<<<"f", "e", "b">>, 2>>,
       <<<<"m", "a", "r">>, 3>>,
       <<<<"a", "p", "r">>, 4>>,
       <<<<"j", "u", "n">>, 6>>,
       <<<<"j", "u", "l">>, 7>>,
       <<<<"a", "u", "g">>, 8>>,
       <<<<"s", "e", "p">>, 9>>,
       <<<<"s", "e", "p", "t">>, 9>>,
       <<<<"o", "c", "t">>, 10>>,
       <<<<"n", "o", "v">>, 11>>,
       <<<<"d", "e", "c">>, 12>> >>

\* MONTH_NAMES.de: name and month number
MonthNamesDe ==
    << <<<<"j", "a", "n", "u", "a", "r">>, 1>>,
       <<<<"f", "e", "b", "r", "u", "a", "r">>, 2>>,
       <<<<"m", "a_uml", "r", "z">>, 3>>,
       <<<<"a", "p", "r", "i", "l">>, 4>>,
       <<<<"m", "a", "i">>, 5>>,
       <<<<"j", "u", "n", "i">>, 6>>,
       <<<<"j", "u", "l", "i">>, 7>>,
       <<<<"a", "u", "g", "u", "s", "t">>, 8>>,
       <<<<"s", "e", "p", "t", "e", "m", "b", "e", "r">>, 9>>,
       <<<<"o", "k", "t", "o", "b", "e", "r">>, 10>>,
       <<<<"n", "o", "v", "e", "m", "b", "e", "r">>, 11>>,
       <<<<"d", "e", "z", "e", "m", "b", "e", "r">>, 12>>,
       <<<<"j", "a", "n">>, 1>>,
       <<<<"f", "e", "b">>, 2>>,
       <<<<"m", "a_uml", "r">>, 3>>,
       <<<<"a", "p", "r">>, 4>>,
       <<<<"j", "u", "n">>, 6>>,
       <<<<"j", "u", "l">>, 7>>,
       <<<<"a", "u", "g">>, 8>>,
       <<<<"s", "e", "p">>, 9>>,
       <<<<"o", "k", "t">>, 10>>,
       <<<<"n", "o", "v">>, 11>>,
       <<<<"d", "e", "z">>, 12>> >>

\* MONTH_NAMES.fr: name and month number
MonthNamesFr ==
    << <<<<"j", "a", "n", "v", "i", "e", "r">>, 1>>,
       <<<<"f", "e_acute", "v", "r", "i", "e", "r">>, 2>>,
       <<<<"m", "a", "r", "s">>, 3>>,
       <<<<"a", "v", "r", "i", "l">>, 4>>,
       <<<<"m", "a", "i">>, 5>>,
       <<<<"j", "u", "i", "n">>, 6>>,
       <<<<"j", "u", "i", "l", "l", "e", "t">>, 7>>,
       <<<<"a", "o", "u_circ", "t">>, 8>>,
       <<<<"s", "e", "p", "t", "e", "m", "b", "r", "e">>, 9>>,
       <<<<"o", "c", "t", "o", "b", "r", "e">>, 10>>,
       <<<<"n", "o", "v", "e", "m", "b", "r", "e">>, 11>>,
       <<<<"d", "e_acute", "c", "e", "m", "b", "r", "e">>, 12>>,
       <<<<"j", "a", "n">>, 1>>,
       <<<<"f", "e_acute", "v">>, 1>>,
       <<<<"f", "e", "v">>, 2>>,
       <<<<"a", "v", "r">>, 4>>,
       <<<<"j", "u", "i", "l">>, 7>>,
       <<<<"a", "o", "u">>, 8>>,
       <<<<"a", "o", "u_circ">>, 8>>,
       <<<<"s", "e", "p", "t">>, 9>>,
       <<<<"o", "c", "t">>, 10>>,
       <<<<"n", "o", "v">>, 11>>,
       <<<<"d", "e_acute", "c">>, 12>>,
       <<<<"d", "e", "c">>, 12>> >>

\* MONTH_NAMES.es: name and month number
MonthNamesEs ==
    << <<<<"e", "n", "e", "r", "o">>, 1>>,
       <<<<"f", "e", "b", "r", "e", "r", "o">>, 2>>,
       <<<<"m", "a", "r", "z", "o">>, 3>>,
       <<<<"a", "b", "r", "i", "l">>, 4>>,
       <<<<"m", "a", "y", "o">>, 5>>,
       <<<<"j", "u", "n", "i", "o">>, 6>>,
       <<<<"j", "u", "l", "i", "o">>, 7>>,
       <<<<"a", "g", "o", "s", "t", "o">>, 8>>,
       <<<<"s", "e", "p", "t", "i", "e", "m", "b", "r", "e">>, 9>>,
       <<<<"o", "c", "t", "u", "b", "r", "e">>, 10>>,
       <<<<"n", "o", "v", "i", "e", "m", "b", "r", "e">>, 11>>,
       <<<<"d", "i", "c", "i", "e", "m", "b", "r", "e">>, 12>>,
       <<<<"e", "n", "e">>, 1>>,
       <<<<"f", "e", "b">>, 2>>,
       <<<<"m", "a", "r">>, 3>>,
       <<<<"a", "b", "r">>, 4>>,
       <<<<"j", "u", "n">>, 6>>,
       <<<<"j", "u", "l">>, 7>>,
       <<<<"a", "g", "o">>, 8>>,
       <<<<"s", "e", "p">>, 9>>,
       <<<<"s", "e", "p", "t">>, 9>>,
       <<<<"o", "c", "t">>, 10>>,
       <<<<"n", "o", "v">>, 11>>,
       <<<<"d", "i", "c">>, 12>> >>

\* MONTH_NAMES.it: name and month number
MonthNamesIt ==
    << <<<<"g", "e", "n", "n", "a", "i", "o">>, 1>>,
       <<<<"f", "e", "b", "b", "r", "a", "i", "o">>, 2>>,
       <<<<"m", "a", "r", "z", "o">>, 3>>,
       <<<<"a", "p", "r", "i", "l", "e">>, 4>>,
       <<<<"m", "a", "g", "g", "i", "o">>, 5>>,
       <<<<"g", "i", "u", "g", "n", "o">>, 6>>,
       <<<<"l", "u", "g", "l", "i", "o">>, 7>>,
       <<<<"a", "g", "o", "s", "t", "o">>, 8>>,
       <<<<"s", "e", "t", "t", "e", "m", "b", "r", "e">>, 9>>,
       <<<<"o", "t", "t", "o", "b", "r", "e">>, 10>>,
       <<<<"n", "o", "v", "e", "m", "b", "r", "e">>, 11>>,
       <<<<"d", "i", "c", "e", "m", "b", "r", "e">>, 12>>,
       <<<<"g", "e", "n">>, 1>>,
       <<<<"f", "e", "b">>, 2>>,
       <<<<"m", "a", "r">>, 3>>,
       <<<<"a", "p", "r">>, 4>>,
       <<<<"m", "a", "g">>, 5>>,
       <<<<"g", "i", "u">>, 6>>,
       <<<<"l", "u", "g">>, 7>>,
       <<<<"a", "g", "o">>, 8>>,
       <<<<"s", "e", "t">>, 9>>,
       <<<<"o", "t", "t">>, 10>>,
       <<<<"n", "o", "v">>, 11>>,
       <<<<"d", "i", "c">>, 12>> >>

\* MONTH_NAMES.nl: name and month number
MonthNamesNl ==
    << <<<<"j", "a", "n", "u", "a", "r", "i">>, 1>>,
       <<<<"f", "e", "b", "r", "u", "a", "r", "i">>, 2>>,
       <<<<"m", "a", "a", "r", "t">>, 3>>,
       <<<<"a", "p", "r", "i", "l">>, 4>>,
       <<<<"m", "e", "i">>, 5>>,
       <<<<"j", "u", "n", "i">>, 6>>,
       <<<<"j", "u", "l", "i">>, 7>>,
       <<<<"a", "u", "g", "u", "s", "t", "u", "s">>, 8>>,
       <<<<"s", "e", "p", "t", "e", "m", "b", "e", "r">>, 9>>,
       <<<<"o", "k", "t", "o", "b", "e", "r">>, 10>>,
       <<<<"n", "o", "v", "e", "m", "b", "e", "r">>, 11>>,
       <<<<"d", "e", "c", "e", "m", "b", "e", "r">>, 12>>,
       <<<<"j", "a", "n">>, 1>>,
       <<<<"f", "e", "b">>, 2>>,
       <<<<"m", "r", "t">>, 3>>,
       <<<<"a", "p", "r">>, 4>>,
       <<<<"j", "u", "n">>, 6>>,
       <<<<"j", "u", "l">>, 7>>,
       <<<<"a", "u", "g">>, 8>>,
       <<<<"s", "e", "p">>, 9>>,
       <<<<"o", "k", "t">>, 10>>,
       <<<<"n", "o", "v">>, 11>>,
       <<<<"d", "e", "c">>, 12>> >>

\* MONTH_NAMES.ja: name and month number
MonthNamesJa ==
    << <<<<"1", "GATSU">>, 1>>,
       <<<<"2", "GATSU">>, 2>>,
       <<<<"3", "GATSU">>, 3>>,
       <<<<"4", "GATSU">>, 4>>,
       <<<<"5", "GATSU">>, 5>>,
       <<<<"6", "GATSU">>, 6>>,
       <<<<"7", "GATSU">>, 7>>,
       <<<<"8", "GATSU">>, 8>>,
       <<<<"9", "GATSU">>, 9>>,
       <<<<"1", "0", "GATSU">>, 10>>,
       <<<<"1", "1", "GATSU">>, 11>>,
       <<<<"1", "2", "GATSU">>, 12>> >>

\* MONTH_NAMES.numeric: name and month number
MonthNamesNumeric ==
    << <<<<"0", "1">>, 1>>,
       <<<<"0", "2">>, 2>>,
       <<<<"0", "3">>, 3>>,
       <<<<"0", "4">>, 4>>,
       <<<<"0", "5">>, 5>>,
       <<<<"0", "6">>, 6>>,
       <<<<"0", "7">>, 7>>,
       <<<<"0", "8">>, 8>>,
       <<<<"0", "9">>, 9>>,
       <<<<"1", "0">>, 10>>,
       <<<<"1", "1">>, 11>>,
       <<<<"1", "2">>, 12>> >>

\* Object.values(MONTH_NAMES): the tables in the order they are searched
MONTH_NAMES ==
    MonthNamesEn \o MonthNamesDe \o MonthNamesFr \o MonthNamesEs
        \o MonthNamesIt \o MonthNamesNl \o MonthNamesJa \o MonthNamesNumeric


LowerChars ==
    <<"a", "b", "c", "d", "e", "f", "g", "h", "i", "j", "k", "l", "m",
      "n", "o", "p", "q", "r", "s", "t", "u", "v", "w", "x", "y", "z">>

UpperChars ==
    <<"A", "B", "C", "D", "E", "F", "G", "H", "I", "J", "K", "L", "M",
      "N", "O", "P", "Q", "R", "S", "T", "U", "V", "W", "X", "Y", "Z">>

\* the class \w of a regular expression without the unicode flag
WordChars ==
    Range(LowerChars) \cup Range(UpperChars) \cup Range(DigitChars) \cup {"_"}

\* String.prototype.toLowerCase, character by character
ToLowerChar(c) ==
    IF c \in Range(UpperChars)
    THEN LowerChars[CHOOSE k \in 1..26 : UpperChars[k] = c]
    ELSE c

ToLowerCase(s) == [k \in 1..Len(s) |-> ToLowerChar(s[k])]

\* the longest prefix of s made of characters of the class
RECURSIVE RunIn(_, _)
RunIn(s, class) ==
    IF s # <<>> /\ Head(s) \in class
    THEN <<Head(s)>> \o RunIn(Tail(s), class)
    ELSE <<>>

\* s.replace(c, ""): the first occurrence only
RemoveFirst(s, c) ==
    IF c \in Range(s)
    THEN SubSeq(s, 1, FirstIndexOf(s, c) - 1) \o DropFirst(s, FirstIndexOf(s, c))
    ELSE s

\* the month the tables give a (normalized) name; 0 when none has it
LookupMonth(normalized) ==
    IF \E k \in 1..Len(MONTH_NAMES) : MONTH_NAMES[k][1] = normalized
    THEN MONTH_NAMES[CHOOSE k \in 1..Len(MONTH_NAMES) :
                        /\ MONTH_NAMES[k][1] = normalized
                        /\ \A j \in 1..(k - 1) :
                              MONTH_NAMES[j][1] # normalized][2]
    ELSE 0

\* parseMonthName: lower case, trimmed, the first point removed; 0 is null
parseMonthName(monthStr) ==
    LookupMonth(RemoveFirst(Trim(ToLowerCase(monthStr)), "."))

\* n in decimal digits
RECURSIVE ToDigits(_)
ToDigits(n) ==
    IF n < 10 THEN <<DigitChars[n + 1]>>
    ELSE ToDigits(n \div 10) \o <<DigitChars[(n % 10) + 1]>>

\* toString().padStart(2, '0')
PadStart2(n) == IF n < 10 THEN <<"0">> \o ToDigits(n) ELSE ToDigits(n)

formatIsoDate(year, month, day) ==
    ToDigits(year) \o <<"-">> \o PadStart2(month) \o <<"-">> \o PadStart2(day)

NoMatch == [ok |-> FALSE, a |-> <<>>, b |-> <<>>, c |-> <<>>]

\* s after a run of blanks, which must not be empty; <<"!">> marks failure
AfterBlanks(s) ==
    IF s # <<>> /\ IsWhitespace(Head(s)) THEN TrimLeft(s) ELSE <<"!">>

\* s after an optional character
AfterOptional(s, c) == IF s # <<>> /\ Head(s) = c THEN Tail(s) ELSE s

\* /^(\w+)\s+(\d{1,2}),?\s+(\d{4})$/
USMatch(s) ==
    LET w == RunIn(s, WordChars)
        s1 == AfterBlanks(DropFirst(s, Len(w)))
        d == RunIn(s1, Range(DigitChars))
        s2 == AfterBlanks(AfterOptional(DropFirst(s1, Len(d)), ","))
        y == RunIn(s2, Range(DigitChars))
    IN  IF w # <<>> /\ Len(d) \in 1..2 /\ Len(y) = 4 /\ Len(s2) = 4
        THEN [ok |-> TRUE, a |-> w, b |-> d, c |-> y]
        ELSE NoMatch

\* /^(\d{1,2})\.?\s+(\w+)\s+(\d{4})$/
EUMatch(s) ==
    LET d == RunIn(s, Range(DigitChars))
        s1 == AfterBlanks(AfterOptional(DropFirst(s, Len(d)), "."))
        w == RunIn(s1, WordChars)
        s2 == AfterBlanks(DropFirst(s1, Len(w)))
        y == RunIn(s2, Range(DigitChars))
    IN  IF Len(d) \in 1..2 /\ w # <<>> /\ Len(y) = 4 /\ Len(s2) = 4
        THEN [ok |-> TRUE, a |-> d, b |-> w, c |-> y]
        ELSE NoMatch

\* s after the word "de" in any case; <<"!">> marks failure
AfterDe(s) ==
    IF Len(s) >= 2 /\ ToLowerCase(SubSeq(s, 1, 2)) = <<"d", "e">>
    THEN DropFirst(s, 2)
    ELSE <<"!">>

\* /^(\d{1,2})\s+de\s+(\w+)\s+de\s+(\d{4})$/i
ESMatch(s) ==
    LET d == RunIn(s, Range(DigitChars))
        s1 == AfterBlanks(AfterDe(AfterBlanks(DropFirst(s, Len(d)))))
        w == RunIn(s1, WordChars)
        s2 == AfterBlanks(AfterDe(AfterBlanks(DropFirst(s1, Len(w)))))
        y == RunIn(s2, Range(DigitChars))
    IN  IF Len(d) \in 1..2 /\ w # <<>> /\ Len(y) = 4 /\ Len(s2) = 4
        THEN [ok |-> TRUE, a |-> d, b |-> w, c |-> y]
        ELSE NoMatch


\* /^(\d{4})NEN(\d{1,2})GATSU(\d{1,2})NICHI$/ (the Japanese year, month
\* and day signs)
JAMatch(s) ==
    LET y == RunIn(s, Range(DigitChars))
        s1 == DropFirst(s, Len(y))
        m == RunIn(AfterOptional(s1, "NEN"), Range(DigitChars))
        s2 == DropFirst(AfterOptional(s1, "NEN"), Len(m))
        d == RunIn(AfterOptional(s2, "GATSU"), Range(DigitChars))
        s3 == DropFirst(AfterOptional(s2, "GATSU"), Len(d))
    IN  IF /\ Len(y) = 4 /\ StartsWith(s1, <<"NEN">>)
           /\ Len(m) \in 1..2 /\ StartsWith(s2, <<"GATSU">>)
           /\ Len(d) \in 1..2 /\ s3 = <<"NICHI">>
        THEN [ok |-> TRUE, a |-> y, b |-> m, c |-> d]
        ELSE NoMatch

\* /^(\d{1,2})[\/\-](\d{1,2})[\/\-](\d{4})$/
NumericMatch(s) ==
    LET d == RunIn(s, Range(DigitChars))
        s1 == DropFirst(s, Len(d))
        m == RunIn(DropFirst(s1, 1), Range(DigitChars))
        s2 == DropFirst(s1, 1 + Len(m))
        y == DropFirst(s2, 1)
    IN  IF /\ Len(d) \in 1..2 /\ s1 # <<>> /\ Head(s1) \in {"/", "-"}
           /\ Len(m) \in 1..2 /\ s2 # <<>> /\ Head(s2) \in {"/", "-"}
           /\ Len(y) = 4 /\ \A k \in 1..4 : IsDigit(y[k])
        THEN [ok |-> TRUE, a |-> d, b |-> m, c |-> y]
        ELSE NoMatch

\* /^\d{4}-\d{2}-\d{2}$/
IsoTest(s) ==
    /\ Len(s) = 10
    /\ s[5] = "-" /\ s[8] = "-"
    /\ \A k \in {1, 2, 3, 4, 6, 7, 9, 10} : IsDigit(s[k])

Null == [ok |-> FALSE, iso |-> <<>>]

Iso(text) == [ok |-> TRUE, iso |-> text]

\* new Date(cleaned) of a text in none of the formats of the language
\* standard: what it gives is left to the implementation
InvalidDate == [valid |-> FALSE, year |-> 0, month |-> 0, day |-> 0]

NativeOutcomes ==
    {InvalidDate}
        \cup [valid : {TRUE}, year : {2001, 2024}, month : {1, 5, 10},
              day : {1, 14}]

\* normalizeDateString; native is what new Date(cleaned) gives, were it
\* asked
normalizeDateString(dateStr, native) ==
    LET cleaned == Trim(dateStr)
        usMatch == USMatch(cleaned)
        euMatch == EUMatch(cleaned)
        esMatch == ESMatch(cleaned)
        jaMatch == JAMatch(cleaned)
        numericMatch == NumericMatch(cleaned)
    IN  IF dateStr = <<>> THEN Null
        ELSE IF IsoTest(cleaned) THEN Iso(cleaned)
        ELSE IF usMatch.ok /\ parseMonthName(usMatch.a) # 0
        THEN Iso(formatIsoDate(DigitsValue(usMatch.c),
                               parseMonthName(usMatch.a),
                               DigitsValue(usMatch.b)))
        ELSE IF euMatch.ok /\ parseMonthName(euMatch.b) # 0
        THEN Iso(formatIsoDate(DigitsValue(euMatch.c),
                               parseMonthName(euMatch.b),
                               DigitsValue(euMatch.a)))
        ELSE IF esMatch.ok /\ parseMonthName(esMatch.b) # 0
        THEN Iso(formatIsoDate(DigitsValue(esMatch.c),
                               parseMonthName(esMatch.b),
                               DigitsValue(esMatch.a)))
        ELSE IF jaMatch.ok
        THEN Iso(formatIsoDate(DigitsValue(jaMatch.a),
                               DigitsValue(jaMatch.b),
                               DigitsValue(jaMatch.c)))
        ELSE IF /\ numericMatch.ok
                /\ DigitsValue(numericMatch.b) <= 12
                /\ DigitsValue(numericMatch.a) <= 31
        THEN Iso(formatIsoDate(DigitsValue(numericMatch.c),
                               DigitsValue(numericMatch.b),
                               DigitsValue(numericMatch.a)))
        ELSE IF native.valid
        THEN Iso(formatIsoDate(native.year, native.month, native.day))
        ELSE Null


\* The languages of MONTH_NAMES that hold month names, and their tables.
DateLanguages == {"en", "de", "fr", "es", "it", "nl", "ja"}

LanguageTable(lang) ==
    CASE lang = "en" -> MonthNamesEn
      [] lang = "de" -> MonthNamesDe
      [] lang = "fr" -> MonthNamesFr
      [] lang = "es" -> MonthNamesEs
      [] lang = "it" -> MonthNamesIt
      [] lang = "nl" -> MonthNamesNl
      [] lang = "ja" -> MonthNamesJa

ListedNames(lang) ==
    {LanguageTable(lang)[k][1] : k \in 1..Len(LanguageTable(lang))}

\* a name as a page prints it at the start of a date: its first letter in
\* upper case
Capitalised(name) ==
    IF Head(name) \in Range(LowerChars)
    THEN <<UpperChars[CHOOSE k \in 1..26 : LowerChars[k] = Head(name)]>>
            \o Tail(name)
    ELSE name

DatePatterns == {"Month D, Year", "D Month Year", "D de Month de Year"}

DateDays == {5, 14}

DateYears == {2024}

\* dates written with a listed month name in one of the patterns
NamedDates ==
    UNION {[lang : {lang}, name : ListedNames(lang), cap : BOOLEAN,
            pattern : DatePatterns, day : DateDays, year : DateYears]
           : lang \in DateLanguages}

\* other texts normalizeDateString is given
OtherDateTexts ==
    { <<>>,
      <<"2", "0", "2", "4", "-", "1", "0", "-", "1", "4">>,
      <<"2", "0", "2", "4", "NEN", "1", "0", "GATSU", "1", "4", "NICHI">>,
      <<"1", "4", "/", "1", "0", "/", "2", "0", "2", "4">>,
      <<"1", "4", "/", "1", "3", "/", "2", "0", "2", "4">>,
      <<"1", "4", ".", " ", "O", "k", "t", "o", "b", "e", "r", " ",
        "2", "0", "2", "4">>,
      <<"O", "c", "t", ".", " ", "1", "4", ",", " ", "2", "0", "2", "4">>,
      <<" ", "O", "c", "t", "o", "b", "e", "r", " ", "1", "4", " ",
        "2", "0", "2", "4", " ">>,
      <<"F", "e", "b", "r", "u", "a", "r", "y", " ", "3", "1", ",", " ",
        "2", "0", "2", "4">>,
      <<"9", "9", " ", "O", "c", "t", " ", "2", "0", "2", "4">>,
      <<"2", "0", "2", "4", "-", "1", "3", "-", "4", "5">>,
      <<"2", "0", "2", "4", "NEN", "1", "3", "GATSU", "4", "5", "NICHI">>,
      <<"3", "1", "/", "0", "4", "/", "2", "0", "2", "4">>,
      <<"0", "/", "0", "/", "2", "0", "2", "4">>,
      <<"s", "o", "o", "n">> }

OtherDates ==
    [lang : {"none"}, name : OtherDateTexts, cap : {FALSE},
     pattern : {"text"}, day : {0}, year : {0}]

DateText(in) ==
    LET name == IF in.cap THEN Capitalised(in.name) ELSE in.name
        d == ToDigits(in.day)
        y == ToDigits(in.year)
    IN  CASE in.pattern = "Month D, Year" ->
                name \o <<" ">> \o d \o <<",", " ">> \o y
          [] in.pattern = "D Month Year" ->
                d \o <<" ">> \o name \o <<" ">> \o y
          [] in.pattern = "D de Month de Year" ->
                d \o <<" ", "d", "e", " ">> \o name
                  \o <<" ", "d", "e", " ">> \o y
          [] in.pattern = "text" -> in.name

DateInit ==
    /\ RunnerParked
    /\ CrawlParked
    /\ BatchParked
    /\ EnrichParked
    /\ GroupParked
    /\ pcF = "call"
    /\ fnInput \in NamedDates \cup OtherDates
    /\ fnOutput = <<>>

CallNormalizeDate ==
    /\ pcF = "call"
    /\ \E native \in NativeOutcomes :
          fnOutput' = normalizeDateString(DateText(fnInput), native)
    /\ pcF' = "returned"
    /\ UNCHANGED <<fnInput, runnerVars, crawlVars, batchVars, enrichVars,
                   groupVars>>

DateNext == CallNormalizeDate

SpecDate == DateInit /\ [][DateNext]_vars

\* ---------------------------------------------------------------------
\* Claims about normalizeDateString
\* ---------------------------------------------------------------------

\* the number of the month a listed name names in its language (the
\* table's, but for the French abbreviation of fevrier, which is the
\* second month)
CalendarMonth(lang, name) ==
    IF lang = "fr" /\ name = <<"f", "e_acute", "v">>
    THEN 2
    ELSE (CHOOSE e \in Range(LanguageTable(lang)) : e[1] = name)[2]

\* C19: a date written with any listed month name of any of the seven
\* languages, in one of the accepted patterns, normalizes to the
\* year-month-day text with the number of that month.
C19_ListedMonthNamesNormalize ==
    (pcF = "returned" /\ fnInput.lang \in DateLanguages)
        => fnOutput = Iso(formatIsoDate(fnInput.year,
                                        CalendarMonth(fnInput.lang,
                                                      fnInput.name),
                                        fnInput.day))

\* C19, for the names written in the letters a to z only: those are the
\* names the patterns can capture
C19_AsciiNamesNormalize ==
    (/\ pcF = "returned" /\ fnInput.lang \in DateLanguages
     /\ Range(fnInput.name) \subseteq Range(LowerChars))
        => fnOutput = Iso(formatIsoDate(fnInput.year,
                                        CalendarMonth(fnInput.lang,
                                                      fnInput.name),
                                        fnInput.day))


\* ------------------------------------------------------------------------
\* Shipping address lines (splitAddressLines, extractShippingAddress,
\* parseInvoiceAddressLines). A text is a sequence of tokens: a blank, a
\* line break, a tag, an entity or a run of other characters.
\* ------------------------------------------------------------------------

\* largest number of parts of an address fragment
MaxParts == 4

\* the fields line1 .. line7 of an address
AddressFields == 7

\* tokens that /<br\s*\/?>/gi matches
BreakTags == {"<br>", "<br/>", "<br />", "<BR>"}

\* other tokens that /<[^>]+>/g matches
OtherTags == {"<span>", "</span>"}

\* tokens that match the postcode pattern
\* /[A-Z]{1,2}\d{1,2}[A-Z]?\s*\d[A-Z]{2}/i
Postcodes == {"JE2 6PT"}

\* the replacements of the entities &lt; &gt; &amp; &nbsp; &#xa0;
DecodeToken(t) ==
    CASE t = "&lt;br&gt;" -> "<br>"
      [] t = "&amp;" -> "&"
      [] t = "&nbsp;" -> " "
      [] t = "&#xa0;" -> " "
      [] OTHER -> t

DecodeEntities(content) == [k \in 1..Len(content) |-> DecodeToken(content[k])]

\* s.split(...) at every token of the class: the parts
RECURSIVE SplitAt(_, _)
SplitAt(s, class) ==
    IF \A k \in 1..Len(s) : s[k] \notin class THEN <<s>>
    ELSE LET k == CHOOSE i \in 1..Len(s) :
                     s[i] \in class /\ \A j \in 1..(i - 1) : s[j] \notin class
         IN  <<SubSeq(s, 1, k - 1)>> \o SplitAt(DropFirst(s, k), class)

\* parts.flatMap(part => part.split(...))
RECURSIVE FlatSplitAt(_, _)
FlatSplitAt(parts, class) ==
    IF parts = <<>> THEN <<>>
    ELSE SplitAt(Head(parts), class) \o FlatSplitAt(Tail(parts), class)

\* text.replace(/\s+/g, " "): every run of blanks becomes one blank
RECURSIVE CollapseBlanks(_)
CollapseBlanks(s) ==
    IF s = <<>> THEN <<>>
    ELSE IF IsWhitespace(Head(s))
    THEN <<" ">> \o CollapseBlanks(TrimLeft(s))
    ELSE <<Head(s)>> \o CollapseBlanks(Tail(s))

cleanText(text) == Trim(CollapseBlanks(text))

NonEmpty(line) == line # <<>>

\* the lines after the split at breaks and newlines, tags removed, cleaned,
\* the empty ones dropped
SplitLines(decoded) ==
    LET parts == FlatSplitAt(SplitAt(decoded, BreakTags), {"\n"})
        cleaned == [k \in 1..Len(parts) |->
                       cleanText(RemoveAll(parts[k], OtherTags \cup BreakTags))]
    IN  SelectSeq(cleaned, NonEmpty)

\* where /^(.+?)\s+(postcode)(.*)$/i finds the postcode in a line: the first
\* one that has a blank and something more before it; 0 when there is none
PostcodeAt(line) ==
    LET at == {k \in 3..Len(line) :
                  line[k] \in Postcodes /\ IsWhitespace(line[k - 1])}
    IN  IF at = {} THEN 0 ELSE CHOOSE k \in at : \A j \in at : k <= j

\* the lines a line becomes: the text before the postcode, the postcode,
\* and the text after it if there is one
ResplitLine(line) ==
    LET k == PostcodeAt(line)
        beforePostcode == Trim(SubSeq(line, 1, k - 2))
        postcode == <<line[k]>>
        afterPostcode == Trim(DropFirst(line, k))
    IN  IF k = 0 THEN <<line>>
        ELSE IF afterPostcode # <<>>
        THEN <<beforePostcode, postcode, afterPostcode>>
        ELSE <<beforePostcode, postcode>>

RECURSIVE Resplit(_)
Resplit(lines) ==
    IF lines = <<>> THEN <<>>
    ELSE ResplitLine(Head(lines)) \o Resplit(Tail(lines))

\* consecutive equal lines (and empty ones) are kept once
RECURSIVE Dedupe(_, _)
Dedupe(deduped, resplit) ==
    IF resplit = <<>> THEN deduped
    ELSE IF /\ Head(resplit) # <<>>
            /\ (deduped = <<>> \/ deduped[Len(deduped)] # Head(resplit))
    THEN Dedupe(Append(deduped, Head(resplit)), Tail(resplit))
    ELSE Dedupe(deduped, Tail(resplit))

splitAddressLines(content) ==
    Dedupe(<<>>, Resplit(SplitLines(DecodeEntities(content))))

\* the object {line1: lines[0], ..., line7: lines[6]}, as the sequence of
\* its defined fields
LinesAll(lines) == lines

Line1To7(lines) == SubSeq(lines, 1, Min(AddressFields, Len(lines)))

Undefined == [found |-> FALSE, lines |-> <<>>, address |-> <<>>]

\* an address built from lines: the lines the splitter gave are kept
\* beside it
AddressFrom(lines) ==
    [found |-> TRUE, lines |-> lines, address |-> Line1To7(lines)]

RECURSIVE SplitEach(_)
SplitEach(items) ==
    IF items = <<>> THEN <<>>
    ELSE splitAddressLines(Head(items)) \o SplitEach(Tail(items))

\* the first script template with content that gives lines; 0 when none
FirstUsableScript(scripts) ==
    LET usable == {k \in 1..Len(scripts) :
                      scripts[k] # <<>> /\ splitAddressLines(scripts[k]) # <<>>}
    IN  IF usable = {} THEN 0 ELSE CHOOSE k \in usable : \A j \in usable : k <= j

\* extractShippingAddress of an order card
extractShippingAddress(card) ==
    IF FirstUsableScript(card.scripts) # 0
    THEN AddressFrom(splitAddressLines(
                         card.scripts[FirstUsableScript(card.scripts)]))
    ELSE IF ~card.hasComponent THEN Undefined
    ELSE IF /\ card.componentHtml # <<>>
            /\ splitAddressLines(card.componentHtml) # <<>>
    THEN AddressFrom(splitAddressLines(card.componentHtml))
    ELSE IF card.listItems # <<>> /\ SplitEach(card.listItems) # <<>>
    THEN AddressFrom(SplitEach(card.listItems))
    ELSE Undefined

\* parseInvoiceAddressLines; an empty list gives the empty object
parseInvoiceAddressLines(lines) ==
    LET cleaned == SelectSeq([k \in 1..Len(lines) |-> cleanText(lines[k])],
                             NonEmpty)
    IN  IF lines = <<>>
        THEN [found |-> TRUE, lines |-> <<>>, address |-> <<>>]
        ELSE AddressFrom(cleaned)


\* the parts address fragments are made of
AddressParts ==
    { <<"NAME">>,
      <<"<span>", "NAME", "</span>">>,
      <<"TOWN", " ", "JE2 6PT">>,
      <<"ROAD", " ", "&nbsp;", "TOWN", " ", "JE2 6PT", " ", "UK">>,
      <<" ">> }

AddressSeparators == {"<br>", "\n", "&lt;br&gt;"}

AddressSources == {"script", "component", "listItems", "none", "invoice"}

PartLists == UNION {[1..n -> AddressParts] : n \in 1..MaxParts}

\* the parts joined by the separator
RECURSIVE JoinParts(_, _)
JoinParts(parts, sep) ==
    IF Len(parts) = 1 THEN Head(parts)
    ELSE Head(parts) \o <<sep>> \o JoinParts(Tail(parts), sep)

\* the order card an input stands for
CardOf(in) ==
    CASE in.source = "script" ->
            [scripts |-> << <<" ">>, JoinParts(in.parts, in.sep) >>,
             hasComponent |-> FALSE, componentHtml |-> <<>>,
             listItems |-> <<>>]
      [] in.source = "component" ->
            [scripts |-> <<>>, hasComponent |-> TRUE,
             componentHtml |-> JoinParts(in.parts, in.sep),
             listItems |-> <<>>]
      [] in.source = "listItems" ->
            [scripts |-> <<>>, hasComponent |-> TRUE,
             componentHtml |-> <<>>, listItems |-> in.parts]
      [] OTHER ->
            [scripts |-> <<>>, hasComponent |-> FALSE,
             componentHtml |-> <<>>, listItems |-> <<>>]

AddressInit ==
    /\ RunnerParked
    /\ CrawlParked
    /\ BatchParked
    /\ EnrichParked
    /\ GroupParked
    /\ pcF = "call"
    /\ fnInput \in [source : AddressSources, parts : PartLists,
                    sep : AddressSeparators]
    /\ fnOutput = <<>>

CallExtractShippingAddress ==
    /\ pcF = "call"
    /\ fnInput.source # "invoice"
    /\ fnOutput' = extractShippingAddress(CardOf(fnInput))
    /\ pcF' = "returned"
    /\ UNCHANGED <<fnInput, runnerVars, crawlVars, batchVars, enrichVars,
                   groupVars>>

\* the invoice's address lines, the recipient's name put before them
CallParseInvoiceAddressLines ==
    /\ pcF = "call"
    /\ fnInput.source = "invoice"
    /\ fnOutput' = parseInvoiceAddressLines(<<<<"NAME">>>> \o fnInput.parts)
    /\ pcF' = "returned"
    /\ UNCHANGED <<fnInput, runnerVars, crawlVars, batchVars, enrichVars,
                   groupVars>>

AddressNext == CallExtractShippingAddress \/ CallParseInvoiceAddressLines

SpecAddress == AddressInit /\ [][AddressNext]_vars

\* ---------------------------------------------------------------------
\* Claims about the shipping address lines
\* ---------------------------------------------------------------------

\* C20 (as stated): the list of address lines made from a fragment never
\* has more than 7 lines.
C20_LineListAtMostSeven ==
    pcF = "returned" => Len(fnOutput.lines) <= 7

\* C20 (amended): the address built from the list has at most 7 lines,
\* the first seven of the list in their order; the list itself may be
\* longer.
C20_AddressAtMostSeven ==
    pcF = "returned"
        => /\ Len(fnOutput.address) <= 7
           /\ Len(fnOutput.address) <= Len(fnOutput.lines)
           /\ \A k \in 1..Len(fnOutput.address) :
                 fnOutput.address[k] = fnOutput.lines[k]

\* C20 witness: a fragment whose postcode re-split brings the list past 7
\* lines, and the address built from it has exactly 7.
C20_Witness ==
    /\ pcF = "returned"
    /\ fnInput.source \in {"script", "component", "listItems"}
    /\ Len(fnInput.parts) < 7
    /\ Len(fnOutput.lines) > 7
    /\ \E k \in 1..Len(fnOutput.lines) : fnOutput.lines[k] = <<"JE2 6PT">>
    /\ Len(fnOutput.address) = 7


\* ------------------------------------------------------------------------
\* Further claims about the Strategy Runner
\* ------------------------------------------------------------------------

\* C21: within one run of firstMatchingStrategy the probes are invoked in
\* list order, each at most once and one at a time; a probe is invoked only
\* after every earlier one has settled unsuccessfully, so none is invoked
\* after the first successful one.
C21_ProbesInOrderOnceEach ==
    runnerKind = "firstMatchingStrategy"
        => /\ \A k \in 1..Len(invoked) : invoked[k] = k
           /\ Cardinality(inflight) <= 1
           /\ inflight \subseteq {Len(invoked)}
           /\ inflight # {} => pcR = "await"
           /\ \A k \in 1..Len(invoked) : \A j \in 1..(invoked[k] - 1) :
                 /\ j \notin inflight
                 /\ ~SuccessfulNonBlank(strategies[j])

\* C21 witness: probe 1 failed, probe 2 was successful and returned; probe
\* 3, successful too, was never invoked.
C21_Witness ==
    /\ RunnerReturned
    /\ Len(strategies) = 3
    /\ ~SuccessfulNonBlank(strategies[1])
    /\ SuccessfulNonBlank(strategies[2])
    /\ SuccessfulNonBlank(strategies[3])
    /\ invoked = <<1, 2>>
    /\ inflight = {}
    /\ result = strategies[2].val


\* ------------------------------------------------------------------------
\* Further claims about the crawls
\* ------------------------------------------------------------------------

\* C22: in the pagination of the order list the accumulated headers never
\* hold the same header id twice, also when fetched pages overlap.
C22_NoDuplicateHeaderIds ==
    mode = "orders"
        => \A i, j \in 1..Len(orders) : orders[i] = orders[j] => i = j


\* ------------------------------------------------------------------------
\* Orchestrator: the items of one order in invoice mode (fetchOrders,
\* csv-columns.ts 1175-1258)
\* ------------------------------------------------------------------------

\* most items an order shows
MaxItems == 3

\* invoiceData.items: absent, or a list of that many items
NoItems == [present |-> FALSE, n |-> 0]

ItemList(n) == [present |-> TRUE, n |-> n]

\* A slip: the detail page visited on any disagreement of the counts.
UseInvoiceItemsOnEqual(expectedItemCount, invoiceItems) ==
    invoiceItems.present /\ invoiceItems.n = expectedItemCount

\* the condition of csv-columns.ts 1203-1208, with expectedItemCount =
\* order.itemCount || 0 and invoiceItemCount = invoiceData.items?.length || 0
UseInvoiceItems(expectedItemCount, invoiceItems) ==
    /\ invoiceItems.present
    /\ invoiceItems.n > 0
    /\ (expectedItemCount = 0 \/ invoiceItems.n >= expectedItemCount)

\* the items the order gets and where they come from; detail: what
\* plugin.extractItems gives on the detail page (a rejection is caught
\* and gives no items)
ChooseItems(in) ==
    IF UseInvoiceItems(in.itemCount, in.invoiceItems)
    THEN [source |-> "invoice", n |-> in.invoiceItems.n]
    ELSE [source |-> "detail",
          n |-> IF in.detail.rejects THEN 0 ELSE in.detail.n]

ItemsInit ==
    /\ RunnerParked
    /\ CrawlParked
    /\ BatchParked
    /\ EnrichParked
    /\ GroupParked
    /\ pcF = "call"
    /\ fnInput \in [itemCount : 0..MaxItems,
                    invoiceItems : {NoItems} \cup {ItemList(n) : n \in 0..MaxItems},
                    detail : [rejects : BOOLEAN, n : 0..MaxItems]]
    /\ fnOutput = <<>>

\* the invoice's items are mapped and kept
KeepInvoiceItems ==
    /\ pcF = "call"
    /\ UseInvoiceItems(fnInput.itemCount, fnInput.invoiceItems)
    /\ fnOutput' = ChooseItems(fnInput)
    /\ pcF' = "returned"
    /\ UNCHANGED <<fnInput, runnerVars, crawlVars, batchVars, enrichVars,
                   groupVars>>

\* the detail page is visited and its items are taken
FallBackToDetail ==
    /\ pcF = "call"
    /\ ~UseInvoiceItems(fnInput.itemCount, fnInput.invoiceItems)
    /\ fnOutput' = ChooseItems(fnInput)
    /\ pcF' = "returned"
    /\ UNCHANGED <<fnInput, runnerVars, crawlVars, batchVars, enrichVars,
                   groupVars>>

ItemsNext == KeepInvoiceItems \/ FallBackToDetail

SpecItems == ItemsInit /\ [][ItemsNext]_vars

\* the number of items the fast path found
FastCount(in) == IF in.invoiceItems.present THEN in.invoiceItems.n ELSE 0

C24_NoScrollPastStart ==
    (/\ mode = "scroll" /\ startDate # 0 /\ allTransactions # <<>>
     /\ MinDate(allTransactions) < startDate)
        => /\ pcC = "done"
           /\ stopReason = "start"
           /\ scrollCount = Len(extractCalls) - 1

\* C24 witness: the second iteration brought a record older than the start
\* date beside a newer one; the loop ended after one scroll, with scrolls
\* left.
C24_Witness ==
    /\ mode = "scroll" /\ startDate # 0 /\ pcC = "done"
    /\ Len(extractCalls) = 2
    /\ scrollCount = 1 /\ scrollCount < maxScrolls
    /\ MinDate(allTransactions) < startDate
    /\ \E i \in 1..Len(allTransactions) : allTransactions[i].date >= startDate


\* ------------------------------------------------------------------------
\* Orchestrator: the extractions issued together on the detail page of one
\* order (fetchOrders, csv-columns.ts 1323-1380; extractShipments,
\* shipments.ts 710-781)
\* ------------------------------------------------------------------------

\* most shipments of an order that carry a tracking link
MaxLinks == 2

GroupOptionChoices ==
    [includeItems : BOOLEAN, includeShipments : BOOLEAN,
     includeTransactions : BOOLEAN, fetchTrackingNumbers : BOOLEAN]

\* the promises pushed to extractionPromises
IssuedMembers(o) ==
    {"details"}
        \cup (IF o.includeItems THEN {"items"} ELSE {})
        \cup (IF o.includeShipments THEN {"shipments"} ELSE {})
        \cup (IF o.includeTransactions THEN {"transactions"} ELSE {})

Unsettled == {m \in DOMAIN memberStatus : memberStatus[m] # "settled"}

GroupInit ==
    /\ RunnerParked
    /\ CrawlParked
    /\ BatchParked
    /\ EnrichParked
    /\ FnParked
    /\ pcG = "issue"
    /\ groupOptions \in GroupOptionChoices
    /\ memberStatus = <<>>
    /\ pageAt = "detail"
    /\ linksLeft \in IF groupOptions.includeShipments
                         /\ groupOptions.fetchTrackingNumbers
                     THEN 0..MaxLinks
                     ELSE {0}
    /\ docsRead = <<>>
    /\ navigatedWith = {}

GroupFrame == UNCHANGED <<runnerVars, crawlVars, batchVars, enrichVars, fnVars>>

\* lines 1324-1376: every requested extraction is started on the page
IssueGroup ==
    /\ pcG = "issue"
    /\ pcG' = "running"
    /\ memberStatus' = [m \in IssuedMembers(groupOptions) |-> "pending"]
    /\ docsRead' = [m \in IssuedMembers(groupOptions) |-> {}]
    /\ UNCHANGED <<groupOptions, pageAt, linksLeft, navigatedWith>>
    /\ GroupFrame

\* an extraction reads the document the page shows at that moment (each
\* reads it in two steps)
MemberReads ==
    /\ pcG = "running"
    /\ \E m \in DOMAIN memberStatus :
         /\ memberStatus[m] \in {"pending", "reading"}
         /\ memberStatus' =
              [memberStatus EXCEPT ![m] =
                  IF @ = "pending" THEN "reading" ELSE "read"]
         /\ docsRead' = [docsRead EXCEPT ![m] = @ \cup {pageAt}]
    /\ UNCHANGED <<pcG, groupOptions, pageAt, linksLeft, navigatedWith>>
    /\ GroupFrame

\* shipments.ts 735-761: extractShipments, its strategies done, sends the
\* page to the ship-track page of the next shipment that has a link
ShipmentsVisit ==
    /\ pcG = "running"
    /\ "shipments" \in DOMAIN memberStatus
    /\ memberStatus["shipments"] \in {"read", "visiting"}
    /\ groupOptions.fetchTrackingNumbers
    /\ linksLeft > 0
    /\ pageAt' = "track"
    /\ linksLeft' = linksLeft - 1
    /\ memberStatus' = [memberStatus EXCEPT !["shipments"] = "visiting"]
    /\ navigatedWith' = navigatedWith \cup {Unsettled \ {"shipments"}}
    /\ UNCHANGED <<pcG, groupOptions, docsRead>>
    /\ GroupFrame

\* shipments.ts 773-777: the page is sent back to the detail page
ShipmentsReturn ==
    /\ pcG = "running"
    /\ "shipments" \in DOMAIN memberStatus
    /\ memberStatus["shipments"] = "visiting"
    /\ linksLeft = 0
    /\ pageAt # "detail"
    /\ pageAt' = "detail"
    /\ memberStatus' = [memberStatus EXCEPT !["shipments"] = "read"]
    /\ navigatedWith' = navigatedWith \cup {Unsettled \ {"shipments"}}
    /\ UNCHANGED <<pcG, groupOptions, linksLeft, docsRead>>
    /\ GroupFrame

\* an extraction is over: its then (or its catch) has run
MemberSettles ==
    /\ pcG = "running"
    /\ \E m \in DOMAIN memberStatus :
         /\ memberStatus[m] = "read"
         /\ m = "shipments" =>
               (linksLeft = 0 \/ ~groupOptions.fetchTrackingNumbers)
         /\ memberStatus' = [memberStatus EXCEPT ![m] = "settled"]
    /\ UNCHANGED <<pcG, groupOptions, pageAt, linksLeft, docsRead,
                   navigatedWith>>
    /\ GroupFrame

\* line 1379: await Promise.all(extractionPromises)
JoinGroup ==
    /\ pcG = "running"
    /\ Unsettled = {}
    /\ pcG' = "joined"
    /\ UNCHANGED <<groupOptions, memberStatus, pageAt, linksLeft, docsRead,
                   navigatedWith>>
    /\ GroupFrame

GroupNext ==
    \/ IssueGroup
    \/ MemberReads
    \/ ShipmentsVisit
    \/ ShipmentsReturn
    \/ MemberSettles
    \/ JoinGroup

SpecGroup == GroupInit /\ [][GroupNext]_vars

\* C25: the extractions issued together all read the one document loaded
\* for them: no navigation of the shared page takes place while another
\* extraction of the group is unsettled, and the group is joined only
\* after every member has settled.
C25_OneDocumentForTheGroup ==
    /\ \A others \in navigatedWith : others = {}
    /\ \A m \in DOMAIN docsRead : docsRead[m] \subseteq {"detail"}
    /\ pcG = "joined" => Unsettled = {}

\* C25, without visits of the ship-track pages: nothing navigates while the
\* group runs.
C25_OneDocumentWithoutTracking ==
    (pcG # "idle" /\ ~groupOptions.fetchTrackingNumbers)
        => C25_OneDocumentForTheGroup


\* ------------------------------------------------------------------------
\* Orchestrator: the ETA reported at each order of the batch (fetchOrders,
\* csv-columns.ts 1076-1098)
\* ------------------------------------------------------------------------

\* most orders of a batch
MaxEtaOrders == 6

\* the time per order assumed before any order was processed, in
\* milliseconds
InvoiceOrderMs == 1500

DetailOrderMs == 3000

\* Date.now() - startTime, in milliseconds
ElapsedChoices == {0, 600, 6000, 60000, 600000}

\* Math.round(a / b) for a >= 0 and b > 0: halves go up
RoundDiv(a, b) == (2 * a + b) \div (2 * b)

\* line 1088: Math.round(etaSeconds / 60)
MinutesShown(etaSeconds) == RoundDiv(etaSeconds, 60)

\* lines 1077-1085: avgTimePerOrder * remaining / 1000, rounded; the
\* average is elapsed / processedCount once an order was processed
EtaSeconds(elapsed, processed, remaining, invoice) ==
    IF processed > 0
    THEN RoundDiv(elapsed * remaining, processed * 1000)
    ELSE RoundDiv((IF invoice THEN InvoiceOrderMs ELSE DetailOrderMs)
                      * remaining, 1000)

\* lines 1086-1089: the text of the ETA, as its numbers
EtaStr(etaSeconds) ==
    IF etaSeconds > 60
    THEN [withMinutes |-> TRUE, minutes |-> MinutesShown(etaSeconds),
          seconds |-> etaSeconds % 60]
    ELSE [withMinutes |-> FALSE, minutes |-> 0, seconds |-> etaSeconds]

\* the ETA reported at the order of index i (from 0) of n orders;
\* processedCount is i there, every path of the loop body counts its order
ReportEta(in) ==
    EtaStr(EtaSeconds(in.elapsed, in.i, in.n - in.i, in.useInvoice))

EtaInit ==
    /\ RunnerParked
    /\ CrawlParked
    /\ BatchParked
    /\ EnrichParked
    /\ GroupParked
    /\ pcF = "call"
    /\ \E n \in 1..MaxEtaOrders :
          fnInput \in [n : {n}, i : 0..(n - 1), elapsed : ElapsedChoices,
                       useInvoice : BOOLEAN]
    /\ fnOutput = <<>>

\* the first order: nothing processed yet, the assumed time per order
ReportFirstEta ==
    /\ pcF = "call"
    /\ fnInput.i = 0
    /\ fnOutput' = ReportEta(fnInput)
    /\ pcF' = "returned"
    /\ UNCHANGED <<fnInput, runnerVars, crawlVars, batchVars, enrichVars,
                   groupVars>>

\* a later order: the running average
ReportRunningEta ==
    /\ pcF = "call"
    /\ fnInput.i > 0
    /\ fnOutput' = ReportEta(fnInput)
    /\ pcF' = "returned"
    /\ UNCHANGED <<fnInput, runnerVars, crawlVars, batchVars, enrichVars,
                   groupVars>>

EtaNext == ReportFirstEta \/ ReportRunningEta

SpecEta == EtaInit /\ [][EtaNext]_vars

\* the seconds a reported ETA stands for
ReportedSeconds(eta) == 60 * eta.minutes + eta.seconds

\* C27: at every order after the first, the reported ETA is (elapsed time /
\* orders processed so far) x orders remaining, to the nearest second.
C27_EtaIsAverageTimesRemaining ==
    (pcF = "returned" /\ fnInput.i > 0)
        => ReportedSeconds(fnOutput)
              = RoundDiv(fnInput.elapsed * (fnInput.n - fnInput.i),
                         fnInput.i * 1000)

\* C27, for the ETAs of at most a minute, which are reported in seconds
C27_ShortEtaIsAverageTimesRemaining ==
    (pcF = "returned" /\ fnInput.i > 0 /\ ~fnOutput.withMinutes)
        => ReportedSeconds(fnOutput)
              = RoundDiv(fnInput.elapsed * (fnInput.n - fnInput.i),
                         fnInput.i * 1000)


\* ------------------------------------------------------------------------
\* Further claims about the batch
\* ------------------------------------------------------------------------

\* C26: an iteration that fails part-way leaves the accumulator as it was
\* at the end of the previous iteration: the order whose enrichment failed
\* is as the list left it and none of its items is in result.items.
C26_FailedIterationWritesNothing ==
    \A k \in Range(attempted) :
        plan[k] = "throws"
            => /\ orders[k] = Header(k, FALSE)
               /\ \A j \in 1..Len(resultItems) : resultItems[j] # orders[k].id

\* C26, for the crawl loops: a crawl that ended on a failure holds what its
\* last whole iteration left.
C26_FailedCrawlKeepsLastIteration ==
    (mode \in {"orders", "scroll"} /\ stopReason = "error")
        => /\ mode = "scroll" =>
                Len(allTransactions)
                    = (IF sizes = <<>> THEN 0 ELSE sizes[Len(sizes)])
           /\ mode = "orders" =>
                \A i \in 1..Len(orders) :
                    \E p \in 1..(Len(extractCalls) - 1) :
                        \E j \in 1..Len(pages[p]) : pages[p][j] = orders[i]


\* C29: in every result fetchOrders returns from the order list, totalFound
\* is the number of orders the result holds, whatever the return path (not
\* authenticated, the loop left, a failure caught at the top).
C29_TotalFoundCountsOrders ==
    (mode = "orders" /\ pcC = "done") => totalFound = Len(orders)

\* C29, for the results that carry no "Fetch error"
C29_TotalFoundCountsOrdersUnfailed ==
    (mode = "orders" /\ pcC = "done" /\ stopReason # "error")
        => totalFound = Len(orders)


\* the days of a month of the Gregorian calendar
IsLeapYear(y) == (y % 4 = 0 /\ y % 100 # 0) \/ y % 400 = 0

DaysInMonth(y, m) ==
    CASE m \in {1, 3, 5, 7, 8, 10, 12} -> 31
      [] m \in {4, 6, 9, 11} -> 30
      [] m = 2 -> IF IsLeapYear(y) THEN 29 ELSE 28
      [] OTHER -> 0

\* a text of the form YYYY-MM-DD, in digits
IsIsoShaped(text) ==
    /\ Len(text) = 10
    /\ text[5] = "-" /\ text[8] = "-"
    /\ \A k \in {1, 2, 3, 4, 6, 7, 9, 10} : text[k] \in Range(DigitChars)

\* C28: every result of normalizeDateString that is not null is a
\* zero-padded YYYY-MM-DD text that names a day of the calendar: its month
\* is 1 to 12 and its day is 1 to the number of days of that month.
C28_ResultIsCalendarDate ==
    (pcF = "returned" /\ fnOutput.ok)
        => /\ IsIsoShaped(fnOutput.iso)
           /\ LET y == DigitsValue(SubSeq(fnOutput.iso, 1, 4))
                  m == DigitsValue(SubSeq(fnOutput.iso, 6, 7))
                  d == DigitsValue(SubSeq(fnOutput.iso, 9, 10))
              IN  m \in 1..12 /\ d \in 1..DaysInMonth(y, m)


\* What C30 says of one scroll iteration: the records of the merged list are
\* the records the merge was given (the accumulator's and the newly
\* extracted ones), each with its order-id sequence as it was given.
MergeStepLeavesRecords ==
    ScrollMerged =>
        \A i \in 1..Len(allTransactions') :
            \E r \in Range(allTransactions \o lastExtracted') :
                /\ SameRecord(r, allTransactions'[i])
                /\ r.orderIds = allTransactions'[i].orderIds

\* C30: merging transactions does not modify the records it is given: every
\* input record has the same order-id sequence (contents and order) after
\* the merge as before it.
C30_MergeLeavesOrderIds == [][MergeStepLeavesRecords]_vars

====
